---- MODULE Spec2Model ----
(***************************************************************************)
(* Planar AudioBuffer of sonata-core (audio.rs): the buffer, its channel   *)
(* and plane accessors and the Signal protocol (clear, render_reserved,    *)
(* render, fill, transform).                                               *)
(*                                                                         *)
(* Allocation indices are 0-based as in the source; buf is a TLA+ sequence *)
(* and so cell k of the allocation is buf[k + 1].  A slice or raw view is  *)
(* the record [start, len] of allocation indices [start, start + len).     *)
(* usize / u64 arithmetic is modelled at a width of UsizeBits bits; a build *)
(* either panics on integer overflow or wraps (overflow_checks), and       *)
(* either compiles debug_assert! and the standard library's checks of      *)
(* unsafe preconditions in or leaves them out (debug_assertions).          *)
(*                                                                         *)
(* Spec is the Signal protocol, render and fill running their callback     *)
(* once per step; SpecViews is the accessors called in every state of the  *)
(* frame counter; SpecConvert is convert and make_equivalent between two   *)
(* buffers; SpecSample is the copy operations of SampleBuffer; SpecNew is  *)
(* the constructors applied to every duration and spec; SpecRoundTrip is   *)
(* a conversion and the conversion back; SpecSource is one source both     *)
(* exported and converted.  SpecPlay is the packet loop of sonata-play     *)
(* (main.rs) and SpecIlst the reading of an ilst atom (isomp4, ilst.rs).   *)
(***************************************************************************)
EXTENDS Integers, Sequences, FiniteSets, TLC

\* Largest frame count handed to AudioBuffer::new.
MaxCapacity == 3
\* Number of channel flags of the Channels mask that are used.
MaxChannels == 3
\* Width of usize in the model.
UsizeBits == 7

UsizeModulus == 2 ^ UsizeBits
UsizeMax == UsizeModulus - 1

\* The sample values of the model; 0 is S::default().
SampleVals == {0, 1}
SampleModulus == Cardinality(SampleVals)

\* Option<usize>: <<>> is None, <<n>> is Some(n).
None == <<>>
Some(n) == <<n>>

\* Option::unwrap_or
unwrap_or(opt, dflt) == IF opt = None THEN dflt ELSE opt[1]

\* a + b on usize: the wrapped value, and whether the exact sum overflows.
WrapAdd(a, b) == (a + b) % UsizeModulus
AddOverflows(a, b) == a + b > UsizeMax
\* a - b on usize.
WrapSub(a, b) == (a - b) % UsizeModulus
SubOverflows(a, b) == a < b
\* a * b on usize.
WrapMul(a, b) == (a * b) % UsizeModulus
MulOverflows(a, b) == a * b > UsizeMax

\* u32::count_ones on the channel mask.
RECURSIVE count_ones(_)
count_ones(bits) == IF bits = 0 THEN 0 ELSE (bits % 2) + count_ones(bits \div 2)

\* Channels::len
ChannelsLen(channels) == count_ones(channels)

\* Channel masks used for construction: the empty mask, the masks of the low
\* k flags (FRONT_LEFT, FRONT_LEFT | FRONT_RIGHT, ...) and one mask of a single
\* higher flag.
ChannelMasks == {2 ^ k - 1 : k \in 0..MaxChannels} \cup {2 ^ (MaxChannels - 1)}

\* Sample rates used for construction.
Rates == {2}

\* SignalSpec::new
SignalSpecNew(rate, channels) == [rate |-> rate, channels |-> channels]

Specs == {SignalSpecNew(r, c) : r \in Rates, c \in ChannelMasks}

\* Duration::Frames(n) and Duration::Seconds(t), t a whole number of seconds.
Frames(n) == [kind |-> "Frames", v |-> n]
Seconds(t) == [kind |-> "Seconds", v |-> t]
Durations == {Frames(n) : n \in 0..MaxCapacity} \cup {Seconds(t) : t \in 0..MaxCapacity}

\* The number of binary digits of n: n < 2^BitLength(n).
RECURSIVE BitLength(_)
BitLength(n) == IF n = 0 THEN 0 ELSE 1 + BitLength(n \div 2)

\* 2^e modulo m.
RECURSIVE PowerOfTwoMod(_, _)
PowerOfTwoMod(e, m) ==
    IF e = 0 THEN 1 % m ELSE (2 * PowerOfTwoMod(e - 1, m)) % m

\* Significant binary digits of an f64.
F64Digits == 53

\* (time * (1f64 / rate as f64)) as u64 for a whole number of seconds, as
\* IEEE 754 double arithmetic (round to nearest, ties to even) computes it.
\*  - rate 0: 1 / 0 is +inf; 0 * inf is NaN, cast to 0; time * inf is +inf,
\*    cast to the largest u64.
\*  - rate a power of two: 1 / rate and the product are exact, the cast
\*    truncates time / rate.
\*  - otherwise 1 / rate is rounded to F64Digits digits: with L the bit
\*    length of rate it is m * 2^-k, k = F64Digits - 1 + L, and
\*    2^k = m * rate + rem when rounded down (2 * rem < rate), so that
\*    time * (1 / rate) = n - n * rem / 2^k for time = n * rate.  The
\*    product rounds below n, and the cast gives n - 1, when n * rem / 2^k
\*    exceeds half the distance from n to the double below it; when 1 / rate
\*    is rounded up, or time is no multiple of rate, the cast gives the
\*    truncated quotient.
seconds_as_frames(time, rate) ==
    IF rate = 0 THEN (IF time = 0 THEN 0 ELSE UsizeMax)
    ELSE IF 2 ^ (BitLength(rate) - 1) = rate THEN time \div rate
    ELSE LET n == time \div rate
             L == BitLength(rate)
             rem == PowerOfTwoMod(F64Digits - 1 + L, rate)
             j == BitLength(n) - 1
             below == IF n = 2 ^ j THEN rem > 2 ^ (L - 2)
                      ELSE n * rem > 2 ^ (j + L - 1)
         IN  IF time % rate # 0 \/ n = 0 THEN n
             ELSE IF 2 * rem > rate THEN n
             ELSE IF below THEN n - 1
             ELSE n

\* The match on duration in AudioBuffer::new and SampleBuffer::new.
DurationCapacity(duration, rate) ==
    IF duration.kind = "Frames" THEN duration.v
    ELSE seconds_as_frames(duration.v, rate)

VARIABLES
    buf,              \* AudioBuffer.buf
    spec,             \* AudioBuffer.spec
    n_frames,         \* AudioBuffer.n_frames
    n_capacity,       \* AudioBuffer.n_capacity
    overflow_checks,  \* the build checks integer arithmetic for overflow (panics) or wraps
    debug_assertions, \* the build compiles debug_assert! and the standard library's
                      \* checks of unsafe preconditions in
    pc,               \* "idle", "render" inside the loop of render, or
                      \* "aborted" when the process has been aborted
    call,             \* the operation in progress or last finished, with its arguments
    planes,           \* the AudioPlanesMut built by render
    log,              \* the invocations of the render callback, in order: the frame
                      \* index it was handed and whether it returned Ok; for a
                      \* copy, the element offsets its SampleWriter stored to
    ret,              \* outcome of the last finished operation
    built,            \* capacity and spec the buffer was constructed with, and
                      \* the frames a SampleBuffer was constructed for
    dest,             \* a second AudioBuffer, the destination of convert
    sbuf,             \* a SampleBuffer, the destination of the copy operations
    player,           \* sonata-play: decode_only or play, its position in the
                      \* packet loop, its reader and its decoder
    ilst              \* isomp4: IlstAtom::read, its position in the atom loop

vars ==
    <<buf, spec, n_frames, n_capacity, overflow_checks, debug_assertions, pc, call, planes, log,
      ret, built, dest, sbuf, player, ilst>>

\* A slice / raw view over allocation indices [start, start + len).
View(start, len) == [start |-> start, len |-> len]

\* Outcomes of an operation.
Ok == [status |-> "ok", views |-> <<>>]
OkViews(vs) == [status |-> "ok", views |-> vs]
Err == [status |-> "err", views |-> <<>>]
Abort == [status |-> "abort", views |-> <<>>]
Panic == [status |-> "panic", views |-> <<>>]
Running == [status |-> "running", views |-> <<>>]

\* The record of a call: operation, Option argument, channel arguments, the
\* value of n_frames when render_reserved or the prologue of render ran (p),
\* the locals n_render_frames and end of render, the value of n_frames when
\* fill was called (prior), whether the call before render was clear,
\* whether a callback of this render has written a sample, and the function
\* given to transform (f), and the Duration given to a constructor.
Call(op, n, chans, p) ==
    [op |-> op, n |-> n, chans |-> chans, p |-> p, nrf |-> 0, end |-> 0,
     prior |-> 0, afterClear |-> FALSE, wrote |-> FALSE, f |-> "",
     duration |-> None]

\* One invocation render(&mut planes, idx) of the callback and its result.
Invocation(idx, ok) == [idx |-> idx, ok |-> ok]

\* vec![S::default(); len]
DefaultBuf(len) == [k \in 1..len |-> 0]

\* The width in bits of the integer sample kinds.
KindBits(kind) ==
    CASE kind = "i16" -> 16
      [] kind = "i24" -> 24
      [] kind = "i32" -> 32

\* mem::size_of::<S>(): a 24-bit sample is held in a 32-bit integer.
SizeOf(kind) == IF kind = "i24" THEN 4 ELSE KindBits(kind) \div 8

\* isize::MAX
IsizeMax == UsizeModulus \div 2 - 1

\* The allocation of a Vec of n elements of size bytes each is refused: Vec
\* panics ('capacity overflow'), in every build, when the bytes exceed
\* isize::MAX.  An allocation the allocator cannot serve is not modelled.
CapacityOverflow(n, size) == n * size > IsizeMax

\* No function of sonata-play is running.
NoPlayer ==
    [fn |-> "none", pos |-> "returned", stream |-> 0, decoded |-> 0,
     closed |-> 0, device |-> FALSE, ret |-> "none"]

\* No ilst atom is being read.
NoIlst ==
    [pos |-> "returned", n_atoms |-> 0, n_tags |-> 0, n_visuals |-> 0,
     atom |-> <<>>, ret |-> "none"]

\* AudioBuffer::new
\* The product n_capacity * channels.len() is a multiplication of u64: a
\* build that checks for overflow panics on it (panic), and otherwise the
\* product wraps and the allocation has the wrapped length.  The debug
\* assertion compares a u64 with usize::max_value() and holds always where
\* usize has the width of u64.  The samples of the buffers of the model are
\* 4 bytes wide (i32, and f32 for the destination of a conversion).
AudioBufferNew(duration, sp, checks) ==
    LET cap == DurationCapacity(duration, sp.rate)
        n_sample_capacity == WrapMul(cap, ChannelsLen(sp.channels))
    IN  IF \/ checks /\ MulOverflows(cap, ChannelsLen(sp.channels))
           \/ CapacityOverflow(n_sample_capacity, SizeOf("i32"))
        THEN [panic |-> TRUE, buf |-> <<>>, spec |-> sp,
              n_frames |-> 0, n_capacity |-> 0]
        ELSE [panic |-> FALSE, buf |-> DefaultBuf(n_sample_capacity),
              spec |-> sp, n_frames |-> 0, n_capacity |-> cap]

\* The AudioBuffer a constructor has returned.
Constructed(r) ==
    [buf |-> r.buf, spec |-> r.spec, n_frames |-> r.n_frames,
     n_capacity |-> r.n_capacity]

\* AudioBuffer::unused
AudioBufferUnused ==
    [buf |-> <<>>, spec |-> SignalSpecNew(0, 0), n_frames |-> 0, n_capacity |-> 0]

\* No SampleBuffer has been constructed.
NoSampleBuffer == [kind |-> "none", buf |-> <<>>, n_written |-> 0]

\* The buffer is constructed, by new or by unused, in a build of one of
\* cargo's two profiles: dev (overflow checks and debug assertions) or
\* release (neither).
Init ==
    /\ overflow_checks \in BOOLEAN
    /\ debug_assertions = overflow_checks
    /\ \E b \in {AudioBufferNew(d, s, overflow_checks) :
                     d \in Durations, s \in Specs}
              \cup {[panic |-> FALSE] @@ AudioBufferUnused} :
          /\ ~b.panic
          /\ buf = b.buf
          /\ spec = b.spec
          /\ n_frames = b.n_frames
          /\ n_capacity = b.n_capacity
    /\ pc = "idle"
    /\ call = Call("new", None, <<>>, 0)
    /\ planes = <<>>
    /\ log = <<>>
    /\ ret = Ok
    /\ built = [n_capacity |-> n_capacity, spec |-> spec]
    /\ dest = AudioBufferUnused
    /\ player = NoPlayer
    /\ ilst = NoIlst
    /\ sbuf = NoSampleBuffer

\* The length of the planes array of AudioPlanes / AudioPlanesMut.  The source
\* fills slots 0..n_planes-1 and exposes only those; the other slots stay
\* uninitialized and are never read.
PlanesArrayLen == 32

\* Arguments n_frames of render_reserved and render: None, the values up to
\* one past the largest capacity, and the largest usize value.
NInputs ==
    {None} \cup {Some(k) : k \in 0..(MaxCapacity + 1)}
           \cup {Some(UsizeMax)}

\* Channel indices (u8) handed to the accessors: every valid index and two
\* past the largest channel count.
ChannelInputs == 0..(MaxChannels + 1)

\* Variant of Clear that leaves the frame counter alone.
ClearKeepsFrames ==
    /\ pc = "idle"
    /\ n_frames' = n_frames
    /\ call' = Call("clear", None, <<>>, 0)
    /\ planes' = <<>>
    /\ log' = <<>>
    /\ ret' = Ok
    /\ UNCHANGED <<buf, spec, n_capacity, overflow_checks, debug_assertions, player, ilst, dest,
                 sbuf, pc, built>>

\* Variant of clear that also resets the samples to their default.
ClearZeroes ==
    /\ pc = "idle"
    /\ n_frames' = 0
    /\ buf' = DefaultBuf(Len(buf))
    /\ call' = Call("clear", None, <<>>, 0)
    /\ planes' = <<>>
    /\ log' = <<>>
    /\ ret' = Ok
    /\ UNCHANGED <<spec, n_capacity, overflow_checks, debug_assertions, player, ilst, dest, sbuf,
                 pc, built>>

\* Signal::clear
Clear ==
    /\ pc = "idle"
    /\ n_frames' = 0
    /\ call' = Call("clear", None, <<>>, 0)
    /\ planes' = <<>>
    /\ log' = <<>>
    /\ ret' = Ok
    /\ UNCHANGED <<buf, spec, n_capacity, overflow_checks, debug_assertions, player, ilst, dest,
                 sbuf, pc, built>>

\* Variant of render_reserved without its assertion.
render_reserved_unchecked(frames, capacity, n, checks) ==
    LET n_reserved_frames == unwrap_or(n, WrapSub(capacity, frames))
    IN  [panic |-> FALSE, n_frames |-> WrapAdd(frames, n_reserved_frames)]

\* Variant of render_reserved that assigns the frame counter instead of
\* advancing it.
render_reserved_sets(frames, capacity, n, checks) ==
    LET n_reserved_frames == unwrap_or(n, WrapSub(capacity, frames))
        arith == checks /\ (SubOverflows(capacity, frames)
                            \/ AddOverflows(frames, n_reserved_frames))
        asserted == WrapAdd(frames, n_reserved_frames) <= capacity
    IN  IF arith \/ ~asserted
        THEN [panic |-> TRUE, n_frames |-> frames]
        ELSE [panic |-> FALSE, n_frames |-> n_reserved_frames]

\* Signal::render_reserved, as a function of the fields and the argument:
\* whether it panics and the value it leaves in n_frames.
render_reserved(frames, capacity, n, checks) ==
    LET n_reserved_frames == unwrap_or(n, WrapSub(capacity, frames))
        arith == checks /\ (SubOverflows(capacity, frames)
                            \/ AddOverflows(frames, n_reserved_frames))
        asserted == WrapAdd(frames, n_reserved_frames) <= capacity
    IN  IF arith \/ ~asserted
        THEN [panic |-> TRUE, n_frames |-> frames]
        ELSE [panic |-> FALSE, n_frames |-> WrapAdd(frames, n_reserved_frames)]

RenderReserved ==
    /\ pc = "idle"
    /\ \E n \in NInputs :
          LET r == render_reserved(n_frames, n_capacity, n, overflow_checks)
          IN  /\ n_frames' = r.n_frames
              /\ ret' = IF r.panic THEN Panic ELSE Ok
              /\ call' = Call("render_reserved", n, <<>>, n_frames)
    /\ planes' = <<>>
    /\ log' = <<>>
    /\ UNCHANGED <<buf, spec, n_capacity, overflow_checks, debug_assertions, player, ilst, dest,
                 sbuf, pc, built>>

\* Variant of RenderPlanes whose ptr starts at the start of the allocation.
RenderPlanesFromStart(frames, capacity, n_render_frames, n_planes) ==
    [i \in 1..n_planes |-> View((i - 1) * capacity, n_render_frames)]

\* The raw views render builds: ptr starts at buf + n_frames and advances by
\* n_capacity per plane, each view n_render_frames long.
RenderPlanes(frames, capacity, n_render_frames, n_planes) ==
    [i \in 1..n_planes |-> View(frames + (i - 1) * capacity, n_render_frames)]

\* The prologue of render up to the loop, entered with n_frames = frames:
\* the locals, and whether an assertion or an arithmetic check panics.
render_prologue(frames, capacity, n, n_planes, checks) ==
    LET n_render_frames == unwrap_or(n, WrapSub(capacity, frames))
        end == WrapAdd(frames, n_render_frames)
        arith == checks /\ (SubOverflows(capacity, frames)
                            \/ AddOverflows(frames, n_render_frames))
    IN  [panic |-> arith \/ ~(end <= capacity) \/ n_planes > PlanesArrayLen,
         n_render_frames |-> n_render_frames,
         end |-> end,
         planes |-> RenderPlanes(frames, capacity, n_render_frames, n_planes)]

\* render (op = "render") or fill (op = "fill", which has just cleared) enters
\* the loop or panics in the prologue.
RenderEnter(op, n, frames, after, prior) ==
    LET r == render_prologue(frames, n_capacity, n, ChannelsLen(spec.channels),
                             overflow_checks)
    IN  /\ n_frames' = frames
        /\ call' = [Call(op, n, <<>>, frames) EXCEPT
                       !.nrf = r.n_render_frames, !.end = r.end,
                       !.afterClear = after, !.prior = prior]
        /\ log' = <<>>
        /\ IF r.panic
           THEN /\ ret' = Panic
                /\ planes' = <<>>
                /\ pc' = "idle"
           ELSE /\ ret' = Running
                /\ planes' = r.planes
                /\ pc' = "render"
        /\ UNCHANGED <<buf, spec, n_capacity, overflow_checks, debug_assertions, player, ilst, dest,
                 sbuf, built>>

\* Signal::render, up to the loop.
RenderBegin ==
    /\ pc = "idle"
    /\ \E n \in NInputs : RenderEnter("render", n, n_frames, call.op = "clear", 0)

\* Variant of FillBegin that does not clear.
FillBeginNoClear ==
    /\ pc = "idle"
    /\ RenderEnter("fill", None, n_frames, TRUE, n_frames)

\* Signal::fill: clear(), then render(None, fill).
FillBegin ==
    /\ pc = "idle"
    /\ RenderEnter("fill", None, 0, TRUE, n_frames)

\* What a successful callback writes: nothing, or one frame at position pos of
\* the views it was handed, planes[c][pos] = v for every plane c.
WriteFrame(b, views, pos, v) ==
    [k \in DOMAIN b |->
        IF \E c \in DOMAIN views : k = views[c].start + pos + 1 THEN v ELSE b[k]]

\* Variant of RenderFrame that advances the frame counter by two.
RenderFrameSkip ==
    /\ pc = "render"
    /\ n_frames < call.end
    /\ \/ UNCHANGED <<buf, call>>
       \/ \E pos \in 0..(call.nrf - 1), v \in SampleVals :
             /\ planes # <<>>
             /\ buf' = WriteFrame(buf, planes, pos, v)
             /\ call' = [call EXCEPT !.wrote = TRUE]
    /\ log' = Append(log, Invocation(n_frames, TRUE))
    /\ n_frames' = WrapAdd(n_frames, 2)
    /\ UNCHANGED <<spec, n_capacity, overflow_checks, debug_assertions, player, ilst, dest, sbuf,
                 pc, planes, ret, built>>

\* One iteration of the loop of render whose callback returns Ok.
RenderFrame ==
    /\ pc = "render"
    /\ n_frames < call.end
    /\ \/ UNCHANGED <<buf, call>>
       \/ \E pos \in 0..(call.nrf - 1), v \in SampleVals :
             /\ planes # <<>>
             /\ buf' = WriteFrame(buf, planes, pos, v)
             /\ call' = [call EXCEPT !.wrote = TRUE]
    /\ log' = Append(log, Invocation(n_frames, TRUE))
    /\ n_frames' = WrapAdd(n_frames, 1)
    /\ UNCHANGED <<spec, n_capacity, overflow_checks, debug_assertions, player, ilst, dest, sbuf,
                 pc, planes, ret, built>>

\* Variant of RenderFail that rolls the frame counter back to its value at entry.
RenderFailRollback ==
    /\ pc = "render"
    /\ n_frames < call.end
    /\ log' = Append(log, Invocation(n_frames, FALSE))
    /\ ret' = Err
    /\ pc' = "idle"
    /\ n_frames' = call.p
    /\ UNCHANGED <<buf, spec, n_capacity, overflow_checks, debug_assertions, player, ilst, dest,
                 sbuf, call, planes, built>>

\* One iteration of the loop of render whose callback returns Err: the `?`
\* returns it.
RenderFail ==
    /\ pc = "render"
    /\ n_frames < call.end
    /\ log' = Append(log, Invocation(n_frames, FALSE))
    /\ ret' = Err
    /\ pc' = "idle"
    /\ UNCHANGED <<buf, spec, n_frames, n_capacity,
                 overflow_checks, debug_assertions, player, ilst, dest, sbuf, call, planes, built>>

\* The loop condition of render fails: Ok(()).
RenderReturn ==
    /\ pc = "render"
    /\ ~(n_frames < call.end)
    /\ ret' = Ok
    /\ pc' = "idle"
    /\ UNCHANGED <<buf, spec, n_frames, n_capacity, overflow_checks, debug_assertions, player, ilst, dest,
                   sbuf, call, planes, log, built>>

\* The functions handed to transform.
TransformFns == {"inc", "zero"}
Apply(f, x) == IF f = "inc" THEN (x + 1) % SampleModulus ELSE 0

\* Variant of transform that rewrites each plane over its whole capacity.
RECURSIVE transform_whole_plane(_, _, _, _, _)
transform_whole_plane(b, plane_start, frames, capacity, f) ==
    IF plane_start < Len(b)
    THEN transform_whole_plane([k \in DOMAIN b |->
                       IF plane_start <= k - 1 /\ k - 1 < plane_start + capacity
                       THEN Apply(f, b[k]) ELSE b[k]],
                   plane_start + capacity, frames, capacity, f)
    ELSE b

\* The offsets the pointer loops of transform dereference: every ptr with
\* plane_start <= ptr < plane_start + n_frames, for every plane_start the
\* outer loop visits.
RECURSIVE transform_cells(_, _, _, _)
transform_cells(plane_start, len, frames, capacity) ==
    IF plane_start < len
    THEN {plane_start + i : i \in 0..(frames - 1)}
            \cup transform_cells(plane_start + capacity, len, frames, capacity)
    ELSE {}

\* The pointer loops of transform: plane_start runs from 0 in steps of
\* n_capacity while below buf.len(); each plane is rewritten on
\* [plane_start, plane_start + n_frames).
RECURSIVE transform(_, _, _, _, _)
transform(b, plane_start, frames, capacity, f) ==
    IF plane_start < Len(b)
    THEN transform([k \in DOMAIN b |->
                       IF plane_start <= k - 1 /\ k - 1 < plane_start + frames
                       THEN Apply(f, b[k]) ELSE b[k]],
                   plane_start + capacity, frames, capacity, f)
    ELSE b

\* Signal::transform
Transform ==
    /\ pc = "idle"
    /\ \E f \in TransformFns :
          /\ buf' = transform(buf, 0, n_frames, n_capacity, f)
          /\ call' = [Call("transform", None, <<>>, 0) EXCEPT !.f = f]
    /\ planes' = <<>>
    /\ log' = <<>>
    /\ ret' = Ok
    /\ UNCHANGED <<spec, n_frames, n_capacity, overflow_checks, debug_assertions, player, ilst,
                 dest, sbuf, pc, built>>

\* Whether the safe slice &buf[start..end] of a buffer of length len panics.
SliceFails(start, end, len) == ~(start <= end /\ end <= len)

\* Variant of chan whose stride is the frame counter instead of the capacity.
chan_frames_stride(frames, capacity, len, channel, checks) ==
    LET start == WrapMul(channel, frames)
        end == WrapAdd(start, frames)
    IN  IF SliceFails(start, end, len)
        THEN Panic
        ELSE OkViews(<<View(start, end - start)>>)

\* Signal::chan: whether it panics, and the slice &self.buf[start..start + n_frames].
chan(frames, capacity, len, channel, checks) ==
    LET start == WrapMul(channel, capacity)
        end == WrapAdd(start, frames)
        arith == checks /\ (MulOverflows(channel, capacity) \/ AddOverflows(start, frames))
    IN  IF arith \/ SliceFails(start, end, len)
        THEN Panic
        ELSE OkViews(<<View(start, end - start)>>)

\* Signal::chan_mut: the same range as chan, mutably.
chan_mut(frames, capacity, len, channel, checks) ==
    LET start == WrapMul(channel, capacity)
        end == WrapAdd(start, frames)
        arith == checks /\ (MulOverflows(channel, capacity) \/ AddOverflows(start, frames))
    IN  IF arith \/ SliceFails(start, end, len)
        THEN Panic
        ELSE OkViews(<<View(start, end - start)>>)

\* Signal::chan_pair_mut: the two assertions on the start indices, then two
\* raw views of n_frames samples each.
chan_pair_mut(frames, capacity, len, first, second, checks) ==
    LET first_idx == WrapMul(capacity, first)
        second_idx == WrapMul(capacity, second)
        arith == checks /\ (MulOverflows(capacity, first) \/ MulOverflows(capacity, second))
    IN  IF arith \/ ~(first_idx < len) \/ ~(second_idx < len)
        THEN Panic
        ELSE OkViews(<<View(first_idx, frames), View(second_idx, frames)>>)

\* AudioBuffer::planes: one safe slice per channel, start = i * n_capacity.
planes_ref(frames, capacity, len, n_planes, checks) ==
    LET start(i) == WrapMul(i, capacity)
        end(i) == WrapAdd(start(i), frames)
        arith(i) == checks /\ (MulOverflows(i, capacity) \/ AddOverflows(start(i), frames))
    IN  IF \/ n_planes > PlanesArrayLen
           \/ \E i \in 0..(n_planes - 1) :
                 arith(i) \/ SliceFails(start(i), end(i), len)
        THEN Panic
        ELSE OkViews([k \in 1..n_planes |-> View(start(k - 1), end(k - 1) - start(k - 1))])

\* AudioBuffer::planes_mut: one raw view per channel, ptr advancing by
\* n_capacity from the start of the allocation.
planes_mut(frames, capacity, n_planes) ==
    IF n_planes > PlanesArrayLen
    THEN Panic
    ELSE OkViews([k \in 1..n_planes |-> View((k - 1) * capacity, frames)])

\* An accessor call: it leaves the buffer alone and returns r.
Accessor(op, chans, r) ==
    /\ call' = Call(op, None, chans, 0)
    /\ ret' = r
    /\ planes' = <<>>
    /\ log' = <<>>
    /\ UNCHANGED <<buf, spec, n_frames, n_capacity,
                 overflow_checks, debug_assertions, player, ilst, dest, sbuf, pc, built>>

Chan ==
    /\ pc = "idle"
    /\ \E channel \in ChannelInputs :
          Accessor("chan", <<channel>>,
                   chan(n_frames, n_capacity, Len(buf), channel, overflow_checks))

ChanMut ==
    /\ pc = "idle"
    /\ \E channel \in ChannelInputs :
          Accessor("chan_mut", <<channel>>,
                   chan_mut(n_frames, n_capacity, Len(buf), channel, overflow_checks))

ChanPairMut ==
    /\ pc = "idle"
    /\ \E first \in ChannelInputs, second \in ChannelInputs :
          Accessor("chan_pair_mut", <<first, second>>,
                   chan_pair_mut(n_frames, n_capacity, Len(buf), first, second,
                                 overflow_checks))

Planes ==
    /\ pc = "idle"
    /\ Accessor("planes", <<>>,
                planes_ref(n_frames, n_capacity, Len(buf), ChannelsLen(spec.channels),
                           overflow_checks))

PlanesMut ==
    /\ pc = "idle"
    /\ Accessor("planes_mut", <<>>,
                planes_mut(n_frames, n_capacity, ChannelsLen(spec.channels)))

(***************************************************************************)
(* ConvertibleAudioBuffer: an AudioBuffer<i32> (the variables buf, spec,   *)
(* n_frames, n_capacity) converted into an AudioBuffer<f32> (dest).        *)
(***************************************************************************)

\* An f32 value num * 2^(-exp), as the pair <<num, exp>> with num odd, or
\* <<0, 0>> for 0.0.
RECURSIVE Dyadic(_, _)
Dyadic(num, exp) ==
    IF num = 0 THEN <<0, 0>>
    ELSE IF num % 2 = 0 /\ exp > 0 THEN Dyadic(num \div 2, exp - 1)
    ELSE <<num, exp>>

\* IntoSample<kind> for i32.  To f32: the full-scale integer range onto
\* [-1.0, 1.0), s / 2^31, exact for the samples of the model (f32 holds 24
\* significant bits).  To a signed integer kind: rescaled by the ratio of
\* the bit widths, an arithmetic shift right; to i32 itself the sample is
\* returned as it is.
into_sample(kind, s) ==
    IF kind = "f32" THEN Dyadic(s, KindBits("i32") - 1)
    ELSE s \div (2 ^ (KindBits("i32") - KindBits(kind)))

\* f32::default()
DefaultF32 == Dyadic(0, 0)

\* The source buffer as a record.
Src == [buf |-> buf, spec |-> spec, n_frames |-> n_frames,
        n_capacity |-> n_capacity]

\* AudioBuffer::<f32>::new
AudioBufferNewF32(duration, sp, checks) ==
    LET b == AudioBufferNew(duration, sp, checks)
    IN  [b EXCEPT !.buf = [k \in DOMAIN b.buf |-> DefaultF32]]

\* Variant of make_equivalent that sizes the new buffer by the frame counter.
make_equivalent_frames(src, checks) ==
    AudioBufferNewF32(Frames(src.n_frames), src.spec, checks)

\* ConvertibleAudioBuffer::make_equivalent
make_equivalent(src, checks) ==
    AudioBufferNewF32(Frames(src.n_capacity), src.spec, checks)

\* Variant of convert_planes whose plane stride is the frame counter.
RECURSIVE convert_planes_packed(_, _, _)
convert_planes_packed(src, dbuf, c) ==
    IF c >= ChannelsLen(src.spec.channels) THEN [panic |-> FALSE, buf |-> dbuf]
    ELSE LET begin == c * src.n_frames
             end == begin + src.n_frames
         IN  IF SliceFails(begin, end, Len(dbuf)) \/ SliceFails(begin, end, Len(src.buf))
             THEN [panic |-> TRUE, buf |-> dbuf]
             ELSE convert_planes_packed(src,
                     [k \in DOMAIN dbuf |->
                         IF begin <= k - 1 /\ k - 1 < end
                         THEN into_sample("f32", src.buf[k]) ELSE dbuf[k]],
                     c + 1)

\* The loop of convert from channel c on: per channel, begin = c * n_capacity
\* and end = begin + n_frames of the source; the slices dest.buf[begin..end]
\* and self.buf[begin..end] are bounds-checked, and the channels before a
\* failing slice stay written.
RECURSIVE convert_planes(_, _, _)
convert_planes(src, dbuf, c) ==
    IF c >= ChannelsLen(src.spec.channels) THEN [panic |-> FALSE, buf |-> dbuf]
    ELSE LET begin == c * src.n_capacity
             end == begin + src.n_frames
         IN  IF SliceFails(begin, end, Len(dbuf)) \/ SliceFails(begin, end, Len(src.buf))
             THEN [panic |-> TRUE, buf |-> dbuf]
             ELSE convert_planes(src,
                     [k \in DOMAIN dbuf |->
                         IF begin <= k - 1 /\ k - 1 < end
                         THEN into_sample("f32", src.buf[k]) ELSE dbuf[k]],
                     c + 1)

\* ConvertibleAudioBuffer::convert: three debug assertions, then the loop.
convert(src, dst, debug) ==
    IF debug /\ ( \/ dst.n_frames # src.n_frames
                  \/ dst.n_capacity # src.n_capacity
                  \/ dst.spec # src.spec )
    THEN [panic |-> TRUE, buf |-> dst.buf]
    ELSE convert_planes(src, dst.buf, 0)

\* Buffer shapes of the conversion specification: no frames or
\* MaxConvertCapacity frames, of no channel, one channel or MaxConvertChannels
\* channels.
MaxConvertCapacity == 2
MaxConvertChannels == 2
ConvertDurations == {Frames(0), Frames(MaxConvertCapacity)}
ConvertSpecs ==
    {SignalSpecNew(r, 2 ^ k - 1) : r \in Rates, k \in {0, 1, MaxConvertChannels}}

\* The source is constructed; no destination exists yet.  The build has
\* overflow checks or not and debug assertions or not, which rustc sets
\* independently.
InitConvert ==
    /\ overflow_checks \in BOOLEAN
    /\ debug_assertions \in BOOLEAN
    /\ \E d \in ConvertDurations, s \in ConvertSpecs :
          LET b == AudioBufferNew(d, s, overflow_checks)
          IN  /\ ~b.panic
              /\ buf = b.buf
              /\ spec = b.spec
              /\ n_frames = b.n_frames
              /\ n_capacity = b.n_capacity
              /\ call = [Call("new", None, <<>>, 0) EXCEPT !.duration = Some(d)]
    /\ pc = "idle"
    /\ planes = <<>>
    /\ log = <<>>
    /\ ret = Ok
    /\ built = [n_capacity |-> n_capacity, spec |-> spec]
    /\ dest = AudioBufferUnused
    /\ player = NoPlayer
    /\ ilst = NoIlst
    /\ sbuf = NoSampleBuffer

\* A call on the destination buffer, or one that makes it.
DestCall(op, d, r) ==
    /\ dest' = d
    /\ call' = Call(op, None, <<>>, 0)
    /\ ret' = r
    /\ planes' = <<>>
    /\ log' = <<>>
    /\ UNCHANGED <<buf, spec, n_frames, n_capacity, overflow_checks, debug_assertions, player, ilst, pc,
                   built, sbuf>>

\* let dest = src.make_equivalent()
MakeEquivalent ==
    /\ pc = "idle"
    /\ LET r == make_equivalent(Src, overflow_checks)
       IN  DestCall("make_equivalent",
                    IF r.panic THEN dest ELSE Constructed(r),
                    IF r.panic THEN Panic ELSE Ok)

\* let dest = AudioBuffer::<f32>::new(duration, spec)
DestNew ==
    /\ pc = "idle"
    /\ \E d \in ConvertDurations, s \in ConvertSpecs :
          LET r == AudioBufferNewF32(d, s, overflow_checks)
          IN  DestCall("dest_new",
                       IF r.panic THEN dest ELSE Constructed(r),
                       IF r.panic THEN Panic ELSE Ok)

\* dest.render_reserved(n)
DestRenderReserved ==
    /\ pc = "idle"
    /\ \E n \in {None} \cup {Some(k) : k \in 0..MaxConvertCapacity} :
          LET r == render_reserved(dest.n_frames, dest.n_capacity, n,
                                   overflow_checks)
          IN  DestCall("dest_render_reserved",
                       [dest EXCEPT !.n_frames = r.n_frames],
                       IF r.panic THEN Panic ELSE Ok)

\* dest.clear()
DestClear ==
    /\ pc = "idle"
    /\ DestCall("dest_clear", [dest EXCEPT !.n_frames = 0], Ok)

\* src.convert(&mut dest)
Convert ==
    /\ pc = "idle"
    /\ LET r == convert(Src, dest, debug_assertions)
       IN  DestCall("convert", [dest EXCEPT !.buf = r.buf],
                    IF r.panic THEN Panic ELSE Ok)

\* IntoSample<i32> for f32: the inverse scaling of [-1.0, 1.0) onto the
\* full-scale integer range, s * 2^31 cast to the integer (the cast truncates
\* toward zero).  s is the dyadic num * 2^-exp.
f32_into_sample(s) ==
    IF s[1] = 0 THEN 0
    ELSE IF s[2] <= KindBits("i32") - 1
    THEN s[1] * 2 ^ (KindBits("i32") - 1 - s[2])
    ELSE s[1] \div (2 ^ (s[2] - (KindBits("i32") - 1)))

\* The loop of convert of an AudioBuffer<f32> into an AudioBuffer<i32>, from
\* channel c on: the same loop as convert_planes, over the other pair of
\* sample kinds.
RECURSIVE convert_planes_f32(_, _, _)
convert_planes_f32(src, dbuf, c) ==
    IF c >= ChannelsLen(src.spec.channels) THEN [panic |-> FALSE, buf |-> dbuf]
    ELSE LET begin == c * src.n_capacity
             end == begin + src.n_frames
         IN  IF SliceFails(begin, end, Len(dbuf)) \/ SliceFails(begin, end, Len(src.buf))
             THEN [panic |-> TRUE, buf |-> dbuf]
             ELSE convert_planes_f32(src,
                     [k \in DOMAIN dbuf |->
                         IF begin <= k - 1 /\ k - 1 < end
                         THEN f32_into_sample(src.buf[k]) ELSE dbuf[k]],
                     c + 1)

\* ConvertibleAudioBuffer::convert of an AudioBuffer<f32> into an
\* AudioBuffer<i32>.
convert_f32(src, dst, debug) ==
    IF debug /\ ( \/ dst.n_frames # src.n_frames
                  \/ dst.n_capacity # src.n_capacity
                  \/ dst.spec # src.spec )
    THEN [panic |-> TRUE, buf |-> dst.buf]
    ELSE convert_planes_f32(src, dst.buf, 0)

\* dest.convert(&mut src): the f32 buffer is converted back into the i32
\* buffer.
ConvertBack ==
    /\ pc = "idle"
    /\ LET r == convert_f32(dest, Src, debug_assertions)
       IN  /\ buf' = r.buf
           /\ call' = Call("convert_back", None, <<>>, 0)
           /\ ret' = IF r.panic THEN Panic ELSE Ok
           /\ planes' = <<>>
           /\ log' = <<>>
           /\ UNCHANGED <<spec, n_frames, n_capacity, overflow_checks, debug_assertions, player, ilst, pc,
                          built, dest, sbuf>>

\* Conversion: the source is filled through render_reserved and transform,
\* the destination is made, positioned and converted into.
NextConvert ==
    \/ Clear
    \/ RenderReserved
    \/ Transform
    \/ MakeEquivalent
    \/ DestNew
    \/ DestRenderReserved
    \/ DestClear
    \/ Convert

SpecConvert == InitConvert /\ [][NextConvert]_vars

(***************************************************************************)
(* SampleBuffer<S> and SampleWriter: the byte buffer the copy operations   *)
(* export an AudioBuffer<i32> into.  sbuf.buf holds one entry per          *)
(* StreamType element of the byte vector: None while the bytes are         *)
(* uninitialized, Some(v) once a sample was written there.                 *)
(***************************************************************************)

\* The sample kinds S of the SampleBuffer of the model.
SampleKinds == {"i24", "i32"}

\* The sample kind of the AudioBuffer the copy operations read.
SrcKind == "i32"

\* mem::size_of::<S::StreamType>(): a 24-bit sample is exported as 3 bytes.
StreamSize(kind) == KindBits(kind) \div 8

\* i24::to_ne_bytes: the low three bytes of the two's complement value.
to_ne_bytes(v) == v % (2 ^ KindBits("i24"))

\* WriteSample::write: the StreamType value handed to the writer.
WriteSample(kind, sample) ==
    IF kind = "i24" THEN to_ne_bytes(sample) ELSE sample

\* mem::align_of::<S::StreamType>(): the packed 3-byte form is an array of
\* bytes.
AlignOf(kind) == IF kind = "i24" THEN 1 ELSE StreamSize(kind)

\* SampleBuffer::new.  n_frames * channels.len() is a multiplication of u64
\* and n_samples * size_of::<S::StreamType>() one of usize: a build that
\* checks for overflow panics on them (panic), and otherwise they wrap;
\* Vec::with_capacity(byte_length) panics in every build when it is refused.
\* The bytes are held per StreamType element.
SampleBufferNew(duration, sp, kind, checks) ==
    LET frames == DurationCapacity(duration, sp.rate)
        n_samples == WrapMul(frames, ChannelsLen(sp.channels))
        byte_length == WrapMul(n_samples, StreamSize(kind))
    IN  IF \/ checks /\ (MulOverflows(frames, ChannelsLen(sp.channels))
                         \/ MulOverflows(n_samples, StreamSize(kind)))
           \/ CapacityOverflow(byte_length, 1)
        THEN [panic |-> TRUE, sb |-> [kind |-> kind, buf |-> <<>>, n_written |-> 0]]
        ELSE [panic |-> FALSE,
              sb |-> [kind |-> kind,
                      buf |-> [k \in 1..(byte_length \div StreamSize(kind)) |-> None],
                      n_written |-> 0]]

\* self.buf.len(), in bytes
ByteLen(sb) == Len(sb.buf) * StreamSize(sb.kind)

\* Variant of capacity that divides by the size of the stream type.
capacity_stream(sb) == ByteLen(sb) \div StreamSize(sb.kind)

\* SampleBuffer::capacity
capacity(sb) == ByteLen(sb) \div SizeOf(sb.kind)

\* SampleBuffer::samples
samples(sb) == sb.n_written

\* SampleBuffer::as_bytes, per StreamType element
as_bytes(sb) == SubSeq(sb.buf, 1, sb.n_written)

\* Variant of req_bytes_mut that adds to the count of written samples.
req_bytes_mut_appending(sb, n_samples) ==
    IF ~(n_samples <= capacity(sb))
    THEN [panic |-> TRUE, sb |-> sb]
    ELSE [panic |-> FALSE,
          sb |-> [sb EXCEPT !.n_written = @ + n_samples]]

\* SampleBuffer::req_bytes_mut
req_bytes_mut(sb, n_samples) ==
    IF ~(n_samples <= capacity(sb))
    THEN [panic |-> TRUE, sb |-> sb]
    ELSE [panic |-> FALSE, sb |-> [sb EXCEPT !.n_written = n_samples]]

\* The pointer to the bytes of sb is not aligned for its StreamType.  The
\* bytes are a Vec<u8>: an allocation comes from the allocator aligned for
\* every sample kind, but an empty Vec allocates nothing and its pointer is
\* dangling, aligned for u8 only.
Unaligned(sb) == ByteLen(sb) = 0 /\ AlignOf(sb.kind) > 1

\* SampleWriter::from_buf: a slice of capacity() StreamType elements over
\* the bytes, written from element 0 on.  offsets is the history of the
\* element offsets the writer has stored to.  The slice is made by
\* slice::from_raw_parts_mut from the pointer to the bytes, which is
\* undefined behaviour when the pointer is not aligned for the StreamType: a
\* build with debug assertions checks that precondition and aborts the
\* process (abort), a build without them goes on with the slice, which is
\* empty.
from_buf(n_samples, sb) ==
    LET r == req_bytes_mut(sb, n_samples)
        abort == ~r.panic /\ debug_assertions /\ Unaligned(sb)
    IN  [panic |-> r.panic \/ abort, abort |-> abort, sb |-> r.sb,
         len |-> capacity(sb), next |-> 0, offsets |-> <<>>]

\* Variant of write that does not advance the writeable index.
write_in_place(w, src) ==
    IF w.panic THEN w
    ELSE IF ~(w.next < w.len) THEN [w EXCEPT !.panic = TRUE]
    ELSE [w EXCEPT !.sb.buf[w.next + 1] = Some(src),
                   !.offsets = Append(@, w.next)]

\* SampleWriter::write: self.buf[self.next] = src, bounds-checked.
write(w, src) ==
    IF w.panic THEN w
    ELSE IF ~(w.next < w.len) THEN [w EXCEPT !.panic = TRUE]
    ELSE [w EXCEPT !.sb.buf[w.next + 1] = Some(src),
                   !.offsets = Append(@, w.next), !.next = @ + 1]

\* S::write(sample.into_sample(), writer) of the typed copies and
\* S::write(sample, writer) of the untyped ones.
write_sample(w, sample, typed) ==
    write(w, WriteSample(w.sb.kind,
                         IF typed THEN into_sample(w.sb.kind, sample)
                         ELSE sample))

\* for sample in &src.buf[begin..begin + n]: write it, from the i-th on.
RECURSIVE write_slice(_, _, _, _, _, _)
write_slice(w, src, begin, n, i, typed) ==
    IF i >= n THEN w
    ELSE write_slice(write_sample(w, src.buf[begin + i + 1], typed),
                     src, begin, n, i + 1, typed)

\* Variant of planar_loop whose plane stride is the frame counter.
RECURSIVE planar_loop_packed(_, _, _, _)
planar_loop_packed(w, src, ch, typed) ==
    IF ch >= ChannelsLen(src.spec.channels) THEN w
    ELSE planar_loop_packed(write_slice(w, src, ch * src.n_frames,
                                        src.n_frames, 0, typed),
                            src, ch + 1, typed)

\* for ch in 0..n_channels: the plane of ch, from channel ch on.
RECURSIVE planar_loop(_, _, _, _)
planar_loop(w, src, ch, typed) ==
    IF ch >= ChannelsLen(src.spec.channels) THEN w
    ELSE planar_loop(write_slice(w, src, ch * src.n_capacity, src.n_frames,
                                 0, typed),
                     src, ch + 1, typed)

\* The outcome of a copy: whether it aborted, the SampleBuffer after it and
\* the offsets its writer stored to.
CopyResult(w) ==
    [panic |-> w.panic, abort |-> w.abort, sb |-> w.sb, offsets |-> w.offsets]

\* The outcome of a copy whose assertion on the capacity failed.
CopyRefused(sb) ==
    [panic |-> TRUE, abort |-> FALSE, sb |-> sb, offsets |-> <<>>]

\* Variant of copy_planar_body without the assertions on the capacity: the
\* writer is made for n_samples whatever the capacity is.
copy_planar_body_unchecked(sb, src, typed) ==
    LET n_samples == src.n_frames * ChannelsLen(src.spec.channels)
    IN  CopyResult(planar_loop(
            [panic |-> FALSE, abort |-> FALSE,
             sb |-> [sb EXCEPT !.n_written = n_samples],
             len |-> capacity(sb), next |-> 0, offsets |-> <<>>],
            src, 0, typed))

\* The body shared by copy_planar_typed and copy_planar.
copy_planar_body(sb, src, typed) ==
    LET n_samples == src.n_frames * ChannelsLen(src.spec.channels)
    IN  IF ~(capacity(sb) >= n_samples)
        THEN CopyRefused(sb)
        ELSE CopyResult(planar_loop(from_buf(n_samples, sb), src, 0, typed))

\* SampleBuffer::copy_planar_typed
copy_planar_typed(sb, src) == copy_planar_body(sb, src, TRUE)

\* SampleBuffer::copy_planar
copy_planar(sb, src) == copy_planar_body(sb, src, FALSE)

\* SampleBuffer::copy_planar_ref: the source is an AudioBufferRef::S32.
copy_planar_ref(sb, src) == copy_planar_typed(sb, src)

\* Variant of stereo_loop that writes the right sample before the left one.
RECURSIVE stereo_loop_swapped(_, _, _, _)
stereo_loop_swapped(w, src, i, typed) ==
    IF i >= src.n_frames THEN w
    ELSE stereo_loop_swapped(
            write_sample(write_sample(w, src.buf[src.n_capacity + i + 1],
                                      typed),
                         src.buf[i + 1], typed),
            src, i + 1, typed)

\* The stereo arm: for (l, r) in l_buf.iter().zip(r_buf), from frame i on.
RECURSIVE stereo_loop(_, _, _, _)
stereo_loop(w, src, i, typed) ==
    IF i >= src.n_frames THEN w
    ELSE stereo_loop(
            write_sample(write_sample(w, src.buf[i + 1], typed),
                         src.buf[src.n_capacity + i + 1], typed),
            src, i + 1, typed)

\* Variant of frame_loop whose plane stride is the frame counter.
RECURSIVE frame_loop_packed(_, _, _, _, _)
frame_loop_packed(w, src, i, ch, typed) ==
    IF ch >= ChannelsLen(src.spec.channels) THEN w
    ELSE frame_loop_packed(
            write_sample(w, src.buf[ch * src.n_frames + i + 1], typed),
            src, i, ch + 1, typed)

\* The inner loop of the arm for 3 and more channels: for ch in
\* 0..n_channels, src.buf[ch * stride + i], from channel ch on.
RECURSIVE frame_loop(_, _, _, _, _)
frame_loop(w, src, i, ch, typed) ==
    IF ch >= ChannelsLen(src.spec.channels) THEN w
    ELSE frame_loop(
            write_sample(w, src.buf[ch * src.n_capacity + i + 1], typed),
            src, i, ch + 1, typed)

\* The outer loop of the arm for 3 and more channels: for i in 0..n_frames.
RECURSIVE general_loop(_, _, _, _)
general_loop(w, src, i, typed) ==
    IF i >= src.n_frames THEN w
    ELSE general_loop(frame_loop(w, src, i, 0, typed), src, i + 1, typed)

\* match n_channels { 0, 1, 2, _ }
interleave(w, src, typed) ==
    LET n_channels == ChannelsLen(src.spec.channels)
    IN  CASE n_channels = 0 -> w
          [] n_channels = 1 -> write_slice(w, src, 0, src.n_frames, 0, typed)
          [] n_channels = 2 -> stereo_loop(w, src, 0, typed)
          [] OTHER -> general_loop(w, src, 0, typed)

\* The body shared by copy_interleaved_typed and copy_interleaved.
copy_interleaved_body(sb, src, typed) ==
    LET n_samples == src.n_frames * ChannelsLen(src.spec.channels)
    IN  IF ~(capacity(sb) >= n_samples)
        THEN CopyRefused(sb)
        ELSE CopyResult(interleave(from_buf(n_samples, sb), src, typed))

\* SampleBuffer::copy_interleaved_typed
copy_interleaved_typed(sb, src) == copy_interleaved_body(sb, src, TRUE)

\* SampleBuffer::copy_interleaved
copy_interleaved(sb, src) == copy_interleaved_body(sb, src, FALSE)

\* SampleBuffer::copy_interleaved_ref: the source is an AudioBufferRef::S32.
copy_interleaved_ref(sb, src) == copy_interleaved_typed(sb, src)

\* Buffer shapes of the export specification: the channel counts are those
\* of the arms of the interleaving copies, 0, 1, 2 and MaxSampleChannels.
MaxSampleCapacity == 2
MaxSampleChannels == 3
SampleDurations ==
    {Frames(0), Frames(MaxSampleCapacity - 1), Frames(MaxSampleCapacity)}
SampleSpecs ==
    {SignalSpecNew(r, 2 ^ k - 1) : r \in Rates,
                                   k \in {0, 1, 2, MaxSampleChannels}}

\* The source AudioBuffer<i32>, empty or of MaxSampleCapacity frames, and a
\* SampleBuffer<S> of the same spec and of that many frames, one less or
\* none are constructed.
InitSample ==
    /\ overflow_checks \in BOOLEAN
    /\ debug_assertions = overflow_checks
    /\ \E d \in {Frames(0), Frames(MaxSampleCapacity)},
          ds \in SampleDurations, s \in SampleSpecs,
          kind \in SampleKinds :
          LET b == AudioBufferNew(d, s, overflow_checks)
              sb == SampleBufferNew(ds, s, kind, overflow_checks)
          IN  /\ ~b.panic /\ ~sb.panic
              /\ buf = b.buf
              /\ spec = b.spec
              /\ n_frames = b.n_frames
              /\ n_capacity = b.n_capacity
              /\ sbuf = sb.sb
              /\ built = [n_capacity |-> b.n_capacity, spec |-> s,
                          sample_frames |-> DurationCapacity(ds, s.rate)]
    /\ pc = "idle"
    /\ call = Call("new", None, <<>>, 0)
    /\ planes = <<>>
    /\ log = <<>>
    /\ ret = Ok
    /\ dest = AudioBufferUnused
    /\ player = NoPlayer
    /\ ilst = NoIlst

\* The sample a decoder stores at offset cell of the allocation: a ramp, so
\* that every cell holds its own value, scaled to survive the conversion to
\* the narrowest kind of SampleKinds.
Ramp(cell) == (cell + 1) * 2 ^ (KindBits("i32") - KindBits("i24"))

\* A decoder stores the samples of the valid frames: for every channel c of
\* the buffer it writes each element of chan_mut(c).
StoreSamples ==
    /\ pc = "idle"
    /\ LET views == [c \in 0..(ChannelsLen(spec.channels) - 1) |->
                        chan_mut(n_frames, n_capacity, Len(buf), c,
                                 overflow_checks)]
       IN  /\ \A c \in DOMAIN views : views[c].status = "ok"
           /\ buf' = [k \in DOMAIN buf |->
                        IF \E c \in DOMAIN views :
                              LET v == views[c].views[1]
                              IN  v.start <= k - 1 /\ k - 1 < v.start + v.len
                        THEN Ramp(k - 1) ELSE buf[k]]
    /\ call' = Call("store", None, <<>>, 0)
    /\ ret' = Ok
    /\ planes' = <<>>
    /\ log' = <<>>
    /\ UNCHANGED <<spec, n_frames, n_capacity, overflow_checks, debug_assertions, player, ilst, pc, built,
                   dest, sbuf>>

\* Variant of CopyCall that consumes the source: its frame counter is reset.
CopyCallConsuming(op, r) ==
    /\ sbuf' = r.sb
    /\ ret' = IF r.abort THEN Abort ELSE IF r.panic THEN Panic ELSE Ok
    /\ pc' = IF r.abort THEN "aborted" ELSE pc
    /\ call' = Call(op, None, <<>>, 0)
    /\ planes' = <<>>
    /\ log' = r.offsets
    /\ n_frames' = 0
    /\ UNCHANGED <<buf, spec, n_capacity, overflow_checks, debug_assertions,
                   player, ilst, built, dest>>

\* A copy operation called on the SampleBuffer with the source buffer.  A
\* copy that aborts ends the process: nothing is called after it.
CopyCall(op, r) ==
    /\ sbuf' = r.sb
    /\ ret' = IF r.abort THEN Abort ELSE IF r.panic THEN Panic ELSE Ok
    /\ pc' = IF r.abort THEN "aborted" ELSE pc
    /\ call' = Call(op, None, <<>>, 0)
    /\ planes' = <<>>
    /\ log' = r.offsets
    /\ UNCHANGED <<buf, spec, n_frames, n_capacity, overflow_checks,
                   debug_assertions, player, ilst, built, dest>>

\* sbuf.copy_planar(&src): the SampleBuffer has the sample kind of the source.
CopyPlanar ==
    /\ pc = "idle"
    /\ sbuf.kind = SrcKind
    /\ CopyCall("copy_planar", copy_planar(sbuf, Src))

\* sbuf.copy_planar_typed(&src, dither)
CopyPlanarTyped ==
    /\ pc = "idle"
    /\ CopyCall("copy_planar_typed", copy_planar_typed(sbuf, Src))

\* sbuf.copy_planar_ref(src.as_audio_buffer_ref(), dither)
CopyPlanarRef ==
    /\ pc = "idle"
    /\ CopyCall("copy_planar_ref", copy_planar_ref(sbuf, Src))

\* sbuf.copy_interleaved(&src)
CopyInterleaved ==
    /\ pc = "idle"
    /\ sbuf.kind = SrcKind
    /\ CopyCall("copy_interleaved", copy_interleaved(sbuf, Src))

\* sbuf.copy_interleaved_typed(&src, dither)
CopyInterleavedTyped ==
    /\ pc = "idle"
    /\ CopyCall("copy_interleaved_typed", copy_interleaved_typed(sbuf, Src))

\* sbuf.copy_interleaved_ref(src.as_audio_buffer_ref(), dither)
CopyInterleavedRef ==
    /\ pc = "idle"
    /\ CopyCall("copy_interleaved_ref", copy_interleaved_ref(sbuf, Src))

\* The names of the copy operations.
CopyOps ==
    {"copy_planar", "copy_planar_typed", "copy_planar_ref",
     "copy_interleaved", "copy_interleaved_typed", "copy_interleaved_ref"}

\* Export: frames are reserved in the source, a decoder stores their
\* samples, and the source is copied into the SampleBuffer.
NextSample ==
    \/ Clear
    \/ RenderReserved
    \/ StoreSamples
    \/ CopyPlanar
    \/ CopyPlanarTyped
    \/ CopyPlanarRef
    \/ CopyInterleaved
    \/ CopyInterleavedTyped
    \/ CopyInterleavedRef

SpecSample == InitSample /\ [][NextSample]_vars

\* let buf = AudioBuffer::<i32>::new(duration, spec)
NewAudioBuffer ==
    /\ pc = "idle"
    /\ \E d \in Durations, s \in Specs :
          LET b == AudioBufferNew(d, s, overflow_checks)
          IN  /\ buf' = IF b.panic THEN buf ELSE b.buf
              /\ spec' = IF b.panic THEN spec ELSE b.spec
              /\ n_frames' = IF b.panic THEN n_frames ELSE b.n_frames
              /\ n_capacity' = IF b.panic THEN n_capacity ELSE b.n_capacity
              /\ built' = IF b.panic THEN built
                          ELSE [n_capacity |-> b.n_capacity, spec |-> s]
              /\ call' = [Call("new", None, <<>>, 0)
                             EXCEPT !.duration = Some(d)]
              /\ ret' = IF b.panic THEN Panic ELSE Ok
    /\ planes' = <<>>
    /\ log' = <<>>
    /\ UNCHANGED <<overflow_checks, debug_assertions, player, ilst, pc, dest, sbuf>>

\* let sbuf = SampleBuffer::<S>::new(duration, &buf.spec)
NewSampleBuffer ==
    /\ pc = "idle"
    /\ \E d \in Durations, kind \in SampleKinds :
          LET sb == SampleBufferNew(d, spec, kind, overflow_checks)
          IN  /\ sbuf' = IF sb.panic THEN sbuf ELSE sb.sb
              /\ call' = [Call("sample_new", None, <<>>, 0)
                             EXCEPT !.duration = Some(d)]
              /\ ret' = IF sb.panic THEN Panic ELSE Ok
    /\ planes' = <<>>
    /\ log' = <<>>
    /\ UNCHANGED <<buf, spec, n_frames, n_capacity, overflow_checks, debug_assertions, player, ilst, pc,
                   built, dest>>

\* The constructors, applied to every duration and spec.
NextNew ==
    \/ NewAudioBuffer
    \/ NewSampleBuffer

SpecNew == Init /\ [][NextNew]_vars

\* The round trip: the i32 buffer is positioned and filled, its f32
\* counterpart is made, positioned and converted into, and converted back.
NextRoundTrip ==
    \/ Clear
    \/ RenderReserved
    \/ StoreSamples
    \/ MakeEquivalent
    \/ DestRenderReserved
    \/ Convert
    \/ ConvertBack

SpecRoundTrip == InitConvert /\ [][NextRoundTrip]_vars

\* A source of MaxSampleCapacity frames, of no channel or two, is constructed,
\* and a SampleBuffer of the same duration and spec; no destination of a
\* conversion exists yet.
InitSource ==
    /\ overflow_checks \in BOOLEAN
    /\ debug_assertions = overflow_checks
    /\ \E s \in {SignalSpecNew(r, 2 ^ k - 1) : r \in Rates, k \in {0, 2}},
          kind \in SampleKinds :
          LET d == Frames(MaxSampleCapacity)
              b == AudioBufferNew(d, s, overflow_checks)
              sb == SampleBufferNew(d, s, kind, overflow_checks)
          IN  /\ ~b.panic /\ ~sb.panic
              /\ buf = b.buf
              /\ spec = b.spec
              /\ n_frames = b.n_frames
              /\ n_capacity = b.n_capacity
              /\ sbuf = sb.sb
              /\ built = [n_capacity |-> b.n_capacity, spec |-> s,
                          sample_frames |-> DurationCapacity(d, s.rate)]
    /\ pc = "idle"
    /\ call = Call("new", None, <<>>, 0)
    /\ planes = <<>>
    /\ log = <<>>
    /\ ret = Ok
    /\ dest = AudioBufferUnused
    /\ player = NoPlayer
    /\ ilst = NoIlst

\* One source, exported and converted: the source is positioned and filled,
\* copied into the SampleBuffer, and converted into an equivalent buffer.
NextSource ==
    \/ RenderReserved
    \/ StoreSamples
    \/ CopyPlanar
    \/ CopyPlanarTyped
    \/ CopyInterleaved
    \/ CopyInterleavedTyped
    \/ MakeEquivalent
    \/ DestRenderReserved
    \/ Convert

SpecSource == InitSource /\ [][NextSource]_vars

(***************************************************************************)
(* sonata-play (main.rs): decode_only and play.  The reader delivers the   *)
(* packets of its stream and then fails (end of stream), or fails earlier  *)
(* (I/O error); the decoder decodes a packet or fails.  player.closed      *)
(* counts the calls of decoder.close().                                    *)
(***************************************************************************)

\* Largest number of packets in the stream of the reader.
MaxPackets == 4

\* The variables of the audio buffers, which sonata-play's control flow does
\* not depend on.
AudioVars ==
    <<buf, spec, n_frames, n_capacity, overflow_checks, debug_assertions, pc, call, planes, log,
      ret, built, dest, sbuf>>

\* No audio buffer is in use.
AudioUnused ==
    /\ buf = AudioBufferUnused.buf
    /\ spec = AudioBufferUnused.spec
    /\ n_frames = AudioBufferUnused.n_frames
    /\ n_capacity = AudioBufferUnused.n_capacity
    /\ pc = "idle"
    /\ call = Call("unused", None, <<>>, 0)
    /\ planes = <<>>
    /\ log = <<>>
    /\ ret = Ok
    /\ built = [n_capacity |-> 0, spec |-> AudioBufferUnused.spec]
    /\ dest = AudioBufferUnused
    /\ sbuf = NoSampleBuffer

\* The variables of the audio buffers that sonata-play does not touch.
PlayUnused ==
    <<overflow_checks, debug_assertions, call, planes, log, ret, built, dest>>

\* The buffers a decoder hands out (AudioBufferRef::S32): a buffer without
\* channels or a stereo one, of capacity 0 or MaxSampleCapacity, whose valid
\* frames hold a ramp.
DecodedBuffers ==
    UNION {{[buf |-> [k \in 1..(cap * ChannelsLen(m)) |->
                        IF (k - 1) % cap < f THEN Ramp(k - 1) ELSE 0],
             spec |-> SignalSpecNew(r, m), n_frames |-> f,
             n_capacity |-> cap] : f \in 0..cap, r \in Rates, m \in {0, 3}}
           : cap \in {0, MaxSampleCapacity}}

\* decode_only or play has been called with a reader of up to MaxPackets
\* packets, in a build of any profile.
InitPlay ==
    /\ AudioUnused
    /\ overflow_checks \in BOOLEAN
    /\ debug_assertions \in BOOLEAN
    /\ ilst = NoIlst
    /\ \E fn \in {"decode_only", "play"}, n \in 0..MaxPackets :
          player = [fn |-> fn, pos |-> "make", stream |-> n, decoded |-> 0,
                    closed |-> 0, device |-> FALSE, ret |-> "running"]

\* The function returns r (or panics, r = "panic", or the process is
\* aborted, r = "abort").
PlayerReturn(r) ==
    player' = [player EXCEPT !.pos = "returned", !.ret = r]

\* reader.default_stream().unwrap() and get_codecs().make(..)?: the decoder
\* is made, or there is no default stream (panic), or make fails and its
\* error is returned.
MakeDecoder ==
    /\ player.pos = "make"
    /\ \E outcome \in {"ok", "no_stream", "err"} :
          CASE outcome = "ok" ->
                 player' = [player EXCEPT !.pos = "next_packet"]
            [] outcome = "no_stream" -> PlayerReturn("panic")
            [] outcome = "err" -> PlayerReturn("err_make")
    /\ UNCHANGED <<AudioVars, ilst>>

\* reader.next_packet()?: a packet, or the error of the reader (end of
\* stream, or an I/O error before it), which ? returns at once.
NextPacket ==
    /\ player.pos = "next_packet"
    /\ \E io_error \in BOOLEAN :
          IF player.stream > 0 /\ ~io_error
          THEN player' = [player EXCEPT !.pos = "decode", !.stream = @ - 1]
          ELSE PlayerReturn("err_next_packet")
    /\ UNCHANGED <<AudioVars, ilst>>

\* match decoder.decode(packet): on Err(err) the decoder is closed and err is
\* returned; on Ok(decoded) decode_only goes on with the next packet and
\* play outputs the decoded buffer.
Decode ==
    /\ player.pos = "decode"
    /\ \/ \E decoded \in DecodedBuffers :
             /\ player' = [player EXCEPT
                              !.pos = IF player.fn = "play" THEN "output"
                                      ELSE "next_packet",
                              !.decoded = @ + 1]
             /\ buf' = decoded.buf
             /\ spec' = decoded.spec
             /\ n_frames' = decoded.n_frames
             /\ n_capacity' = decoded.n_capacity
       \/ /\ player' = [player EXCEPT !.closed = @ + 1,
                                      !.pos = "returned",
                                      !.ret = "err_decode"]
          /\ UNCHANGED <<buf, spec, n_frames, n_capacity>>
    /\ UNCHANGED <<PlayUnused, pc, sbuf, ilst>>

\* The end of an Ok arm of play: samples.copy_interleaved_ref(decoded, ..)
\* into the SampleBuffer sb, which panics or aborts the process as the copy
\* does, and pa.write(samples.as_bytes()).unwrap(), which panics when the
\* write fails (written is the answer of libpulse).  The device exists.
CopyAndWrite(sb, written) ==
    LET r == copy_interleaved_ref(sb, Src)
    IN  /\ sbuf' = r.sb
        /\ pc' = IF r.abort THEN "aborted" ELSE pc
        /\ player' = [player EXCEPT
                         !.device = TRUE,
                         !.pos = IF r.panic \/ ~written THEN "returned"
                                 ELSE "next_packet",
                         !.ret = IF r.abort THEN "abort"
                                 ELSE IF r.panic \/ ~written THEN "panic"
                                 ELSE @]

\* play, the Ok arm.  For the first packet the SampleBuffer is made for the
\* capacity and the spec of the decoded buffer (SampleBuffer::<i32>::new
\* panics as the constructor does) and the PulseAudio device is created:
\* assert!(pa_spec.is_valid()) and Simple::new(..).unwrap() panic when
\* libpulse answers no (valid, created), before any sample is copied.  Then,
\* and for every later packet, the samples are interleaved and written.
Output ==
    /\ player.pos = "output"
    /\ \E valid \in BOOLEAN, created \in BOOLEAN, written \in BOOLEAN :
          IF ~player.device
          THEN LET new == SampleBufferNew(Frames(n_capacity), spec, "i32",
                                          overflow_checks)
               IN  IF new.panic
                   THEN PlayerReturn("panic") /\ UNCHANGED <<sbuf, pc>>
                   ELSE IF ~valid \/ ~created
                   THEN /\ PlayerReturn("panic")
                        /\ sbuf' = new.sb
                        /\ UNCHANGED pc
                   ELSE CopyAndWrite(new.sb, written)
          ELSE CopyAndWrite(sbuf, written)
    /\ UNCHANGED <<buf, spec, n_frames, n_capacity, PlayUnused, ilst>>

NextPlay ==
    \/ MakeDecoder
    \/ NextPacket
    \/ Decode
    \/ Output

SpecPlay == InitPlay /\ [][NextPlay]_vars

(***************************************************************************)
(* isomp4 (atoms/ilst.rs): IlstAtom::read.  The ilst atom is a list of tag *)
(* atoms; a tag atom is a list of data, name and mean atoms.  An atom of   *)
(* the input is its type, the data length its header declares, the version *)
(* byte of its extra header and whether its payload is valid UTF-8.        *)
(* Lengths are u64 in the source and are modelled at the width UsizeBits.  *)
(***************************************************************************)

\* Largest number of tag atoms in an ilst atom, and of atoms in a tag atom.
MaxTags == 2
MaxChildren == 2

\* AtomHeader::EXTRA_DATA_SIZE: the version byte and the 24 bits of flags.
EXTRA_DATA_SIZE == 4

\* Bytes the stream holds after the header of an atom.
StreamBytes == 8

\* The length of the value of a trkn or disk atom.
MOfNLen == 8

\* Declared data lengths of a data atom whose payload is not empty: the
\* extra header and the country and language codes, followed by one byte or
\* by the 8 bytes of a trkn or disk atom.
DataLens == {EXTRA_DATA_SIZE + 5, EXTRA_DATA_SIZE + 4 + MOfNLen}

\* The payloads of a data atom: text (UTF-8 bytes, the first not 1), flag
\* (the first byte 1, the others 0) and binary (bytes that are not UTF-8).
Contents == {"text", "flag", "binary"}

\* The atoms a tag atom may contain.  Data atoms: of a version other than
\* 0; declaring no data length at all; with an empty payload; and with a
\* payload of each length and content.  Name and mean atoms: declaring no
\* data length, or holding 4 bytes that are not UTF-8.
ChildAtoms ==
    {[atype |-> "data", data_len |-> EXTRA_DATA_SIZE + 4, version |-> 1,
      content |-> "text"]}
    \cup [atype : {"data"}, data_len : {0, EXTRA_DATA_SIZE + 4},
          version : {0}, content : {"text"}]
    \cup [atype : {"data"}, data_len : DataLens, version : {0},
          content : Contents]
    \cup [atype : {"name", "mean"}, data_len : {0, EXTRA_DATA_SIZE + 4},
          version : {0}, content : {"binary"}]

\* Sequences of up to MaxChildren child atoms.
ChildLists ==
    UNION {[1..n -> ChildAtoms] : n \in 0..MaxChildren}

\* ByteStream::read_boxed_slice_exact(len): the bytes, or an error when the
\* stream does not hold len bytes.
read_boxed_slice_exact(len) ==
    IF len <= StreamBytes THEN "ok" ELSE "err"

\* MetaTagDataAtom::read: a version other than 0 is a decode error; the
\* payload is data_len - EXTRA_DATA_SIZE - 4 bytes, a subtraction of u64
\* that panics on overflow in a build with overflow checks and wraps
\* otherwise.
MetaTagDataAtomRead(a, checks) ==
    IF a.version # 0
    THEN [status |-> "err", len |-> 0, utf8 |-> TRUE, flag |-> FALSE]
    ELSE LET d == WrapSub(a.data_len, EXTRA_DATA_SIZE)
             len == WrapSub(d, 4)
         IN  IF checks /\ (SubOverflows(a.data_len, EXTRA_DATA_SIZE)
                           \/ SubOverflows(d, 4))
             THEN [status |-> "panic", len |-> 0, utf8 |-> TRUE,
                   flag |-> FALSE]
             ELSE [status |-> read_boxed_slice_exact(len), len |-> len,
                   utf8 |-> len = 0 \/ a.content # "binary",
                   flag |-> len > 0 /\ a.content = "flag"]

\* MetaTagNamespaceAtom::read: the value is data_len - EXTRA_DATA_SIZE
\* bytes, converted with String::from_utf8_lossy, which accepts any bytes.
MetaTagNamespaceAtomRead(a, checks) ==
    LET len == WrapSub(a.data_len, EXTRA_DATA_SIZE)
    IN  IF checks /\ SubOverflows(a.data_len, EXTRA_DATA_SIZE)
        THEN [status |-> "panic", len |-> 0, utf8 |-> TRUE, flag |-> FALSE]
        ELSE [status |-> read_boxed_slice_exact(len), len |-> len,
              utf8 |-> TRUE, flag |-> FALSE]

\* MetaTagAtom::read from child i on: the data atoms are collected in
\* values, and the first atom that fails ends the read with its outcome.
RECURSIVE MetaTagAtomRead(_, _, _, _)
MetaTagAtomRead(children, i, values, checks) ==
    IF i > Len(children) THEN [status |-> "ok", values |-> values]
    ELSE LET a == children[i]
             r == IF a.atype = "data" THEN MetaTagDataAtomRead(a, checks)
                  ELSE MetaTagNamespaceAtomRead(a, checks)
         IN  IF r.status # "ok" THEN [status |-> r.status, values |-> values]
             ELSE MetaTagAtomRead(children, i + 1,
                     IF a.atype = "data" THEN Append(values, r) ELSE values,
                     checks)

\* What an arm of IlstAtom::read has done: its outcome and the numbers of
\* tags and of visuals it has added to the builder.
Added(status, tags, visuals) ==
    [status |-> status, tags |-> tags, visuals |-> visuals]

\* add_string_tag: the tag atom is read (? returns its error); the first
\* value, if there is one, becomes a tag through
\* str::from_utf8(&value.data).unwrap(), which panics on bytes that are not
\* UTF-8.
add_string_tag(children, checks) ==
    LET tag == MetaTagAtomRead(children, 1, <<>>, checks)
    IN  IF tag.status # "ok" THEN Added(tag.status, 0, 0)
        ELSE IF tag.values = <<>> THEN Added("ok", 0, 0)
        ELSE IF ~tag.values[1].utf8 THEN Added("panic", 0, 0)
        ELSE Added("ok", 1, 0)

\* add_var_signed_int_tag: the first value becomes a tag when it is 1 to 4
\* bytes long; the reads from the BufStream over exactly those bytes
\* succeed.
add_var_signed_int_tag(children, checks) ==
    LET tag == MetaTagAtomRead(children, 1, <<>>, checks)
    IN  IF tag.status # "ok" THEN Added(tag.status, 0, 0)
        ELSE IF tag.values = <<>> THEN Added("ok", 0, 0)
        ELSE IF tag.values[1].len > 0 /\ tag.values[1].len <= 4
        THEN Added("ok", 1, 0)
        ELSE Added("ok", 0, 0)

\* add_boolean_tag: a tag is added when the first byte of the first value
\* is 1.
add_boolean_tag(children, checks) ==
    LET tag == MetaTagAtomRead(children, 1, <<>>, checks)
    IN  IF tag.status # "ok" THEN Added(tag.status, 0, 0)
        ELSE IF tag.values = <<>> THEN Added("ok", 0, 0)
        ELSE IF tag.values[1].flag THEN Added("ok", 1, 0)
        ELSE Added("ok", 0, 0)

\* add_m_of_n_tag: a first value of exactly 8 bytes gives two tags, the
\* number and the total.
add_m_of_n_tag(children, checks) ==
    LET tag == MetaTagAtomRead(children, 1, <<>>, checks)
    IN  IF tag.status # "ok" THEN Added(tag.status, 0, 0)
        ELSE IF tag.values = <<>> THEN Added("ok", 0, 0)
        ELSE IF tag.values[1].len = MOfNLen THEN Added("ok", 2, 0)
        ELSE Added("ok", 0, 0)

\* add_visual_tag: every value becomes a visual, whatever its bytes.
add_visual_tag(children, checks) ==
    LET tag == MetaTagAtomRead(children, 1, <<>>, checks)
    IN  IF tag.status # "ok" THEN Added(tag.status, 0, 0)
        ELSE Added("ok", 0, Len(tag.values))

\* add_advisory_tag: nothing is read and nothing is added.
add_advisory_tag == Added("ok", 0, 0)

\* add_media_type_tag: a first value that is not empty gives a tag.
add_media_type_tag(children, checks) ==
    LET tag == MetaTagAtomRead(children, 1, <<>>, checks)
    IN  IF tag.status # "ok" THEN Added(tag.status, 0, 0)
        ELSE IF tag.values = <<>> THEN Added("ok", 0, 0)
        ELSE IF tag.values[1].len > 0 THEN Added("ok", 1, 0)
        ELSE Added("ok", 0, 0)

\* add_freeform_tag: as add_string_tag, the key being the tag's full name.
add_freeform_tag(children, checks) ==
    LET tag == MetaTagAtomRead(children, 1, <<>>, checks)
    IN  IF tag.status # "ok" THEN Added(tag.status, 0, 0)
        ELSE IF tag.values = <<>> THEN Added("ok", 0, 0)
        ELSE IF ~tag.values[1].utf8 THEN Added("panic", 0, 0)
        ELSE Added("ok", 1, 0)

\* IlstAtom::read has made its iterator and its builder.
InitIlst ==
    /\ AudioUnused
    /\ overflow_checks \in BOOLEAN
    /\ debug_assertions = overflow_checks
    /\ player = NoPlayer
    /\ ilst = [pos |-> "loop", n_atoms |-> 0, n_tags |-> 0, n_visuals |-> 0,
               atom |-> <<>>, ret |-> "running"]

\* One iteration of the loop of IlstAtom::read on a tag atom that add reads:
\* an error is returned by ?, a panic aborts, and otherwise the loop goes on.
IlstTag(atype, children, r) ==
    /\ ilst' = [ilst EXCEPT
                  !.n_atoms = @ + 1,
                  !.n_tags = @ + r.tags,
                  !.n_visuals = @ + r.visuals,
                  !.atom = [atype |-> atype, children |-> children],
                  !.pos = IF r.status = "ok" THEN "loop" ELSE "returned",
                  !.ret = IF r.status = "ok" THEN "running" ELSE r.status]
    /\ UNCHANGED <<AudioVars, player>>

\* iter.next()? finds no further atom, Ok(IlstAtom) is returned; or it fails
\* and its error is returned.
IlstEnd ==
    /\ ilst.pos = "loop"
    /\ \E ok \in BOOLEAN :
          ilst' = [ilst EXCEPT !.pos = "returned",
                               !.ret = IF ok THEN "ok" ELSE "err"]
    /\ UNCHANGED <<AudioVars, player>>

\* A tag atom of a type that is ignored (ArtistLowerTag, HdVideoTag, ..).
IlstIgnoredTag ==
    /\ ilst.pos = "loop"
    /\ ilst.n_atoms < MaxTags
    /\ IlstTag("ignored", <<>>, Added("ok", 0, 0))

\* An AdvisoryTag atom.
IlstAdvisoryTag ==
    /\ ilst.pos = "loop"
    /\ ilst.n_atoms < MaxTags
    /\ IlstTag("advisory", <<>>, add_advisory_tag)

\* A CoverTag atom.
IlstVisualTag ==
    /\ ilst.pos = "loop"
    /\ ilst.n_atoms < MaxTags
    /\ \E children \in ChildLists :
          IlstTag("visual", children, add_visual_tag(children, overflow_checks))

\* A DiskNumberTag or TrackNumberTag atom.
IlstMOfNTag ==
    /\ ilst.pos = "loop"
    /\ ilst.n_atoms < MaxTags
    /\ \E children \in ChildLists :
          IlstTag("m_of_n", children, add_m_of_n_tag(children, overflow_checks))

\* A MediaTypeTag atom.
IlstMediaTypeTag ==
    /\ ilst.pos = "loop"
    /\ ilst.n_atoms < MaxTags
    /\ \E children \in ChildLists :
          IlstTag("media_type", children,
                  add_media_type_tag(children, overflow_checks))

\* A PodcastTag atom.
IlstBooleanTag ==
    /\ ilst.pos = "loop"
    /\ ilst.n_atoms < MaxTags
    /\ \E children \in ChildLists :
          IlstTag("boolean", children,
                  add_boolean_tag(children, overflow_checks))

\* A TempoTag atom.
IlstVarSignedIntTag ==
    /\ ilst.pos = "loop"
    /\ ilst.n_atoms < MaxTags
    /\ \E children \in ChildLists :
          IlstTag("var_signed_int", children,
                  add_var_signed_int_tag(children, overflow_checks))

\* A tag atom of a type read by add_string_tag (AlbumTag, ArtistTag, ..).
IlstStringTag ==
    /\ ilst.pos = "loop"
    /\ ilst.n_atoms < MaxTags
    /\ \E children \in ChildLists :
          IlstTag("string", children, add_string_tag(children, overflow_checks))

\* A FreeFormTag atom.
IlstFreeformTag ==
    /\ ilst.pos = "loop"
    /\ ilst.n_atoms < MaxTags
    /\ \E children \in ChildLists :
          IlstTag("freeform", children,
                  add_freeform_tag(children, overflow_checks))

NextIlst ==
    \/ IlstEnd
    \/ IlstIgnoredTag
    \/ IlstAdvisoryTag
    \/ IlstStringTag
    \/ IlstVisualTag
    \/ IlstMOfNTag
    \/ IlstMediaTypeTag
    \/ IlstBooleanTag
    \/ IlstVarSignedIntTag
    \/ IlstFreeformTag

SpecIlst == InitIlst /\ [][NextIlst]_vars

\* The Signal protocol: clear, render_reserved, render, fill and transform,
\* render and fill running their callback once per step.
Next ==
    \/ Clear
    \/ RenderReserved
    \/ RenderBegin
    \/ FillBegin
    \/ RenderFrame
    \/ RenderFail
    \/ RenderReturn
    \/ Transform

Spec == Init /\ [][Next]_vars

\* The accessors, called in every state the frame counter can take: clear and
\* render_reserved move it, transform rewrites the valid samples.
NextViews ==
    \/ Clear
    \/ RenderReserved
    \/ Transform
    \/ Chan
    \/ ChanMut
    \/ ChanPairMut
    \/ Planes
    \/ PlanesMut

SpecViews == Init /\ [][NextViews]_vars

(***************************************************************************)
(* Properties                                                              *)
(***************************************************************************)

\* spec.channels.len() of the buffer.
NumChannels == ChannelsLen(spec.channels)

\* The allocation indices a view covers.
Cells(v) == {v.start + k : k \in 0..(v.len - 1)}

\* A view lies inside the allocation.
InAllocation(v) == v.start + v.len <= Len(buf)

\* The views of a sequence are pairwise disjoint.
PairwiseDisjoint(vs) ==
    \A i \in DOMAIN vs, j \in DOMAIN vs : i # j => Cells(vs[i]) \cap Cells(vs[j]) = {}

\* The number of frames a render was asked for: n, or capacity - p when absent.
Requested == IF call.n = None THEN n_capacity - call.p ELSE call.n[1]

\* C1: in every state reached by clear, render_reserved, render (with
\* callbacks succeeding or failing at any frame), fill and transform,
\* 0 <= n_frames <= n_capacity, and n_capacity and spec are the values the
\* buffer was constructed with.
C1_FramesWithinCapacity ==
    /\ n_frames \in 0..n_capacity
    /\ n_capacity = built.n_capacity
    /\ spec = built.spec

\* A transform ran on a partly filled buffer that holds a non-default sample.
C1_Witness ==
    /\ call.op = "transform"
    /\ 0 < n_frames /\ n_frames < n_capacity
    /\ \E k \in DOMAIN buf : buf[k] # 0

\* C2: for every channel index i < channel count, chan(i) and chan_mut(i)
\* return exactly [i * capacity, i * capacity + frames); planes() and
\* planes_mut() return channel-count views, view i being that range; every
\* view has length frames and lies inside the allocation, and the views of
\* different channels are pairwise disjoint.
C2_ViewsExact ==
    /\ (call.op \in {"chan", "chan_mut"} /\ call.chans[1] < NumChannels) =>
          /\ ret = OkViews(<<View(call.chans[1] * n_capacity, n_frames)>>)
          /\ InAllocation(ret.views[1])
    /\ call.op \in {"planes", "planes_mut"} =>
          /\ ret.status = "ok"
          /\ Len(ret.views) = NumChannels
          /\ \A i \in 1..NumChannels :
                /\ ret.views[i] = View((i - 1) * n_capacity, n_frames)
                /\ InAllocation(ret.views[i])
          /\ PairwiseDisjoint(ret.views)

\* planes_mut returned two non-empty views of a partly filled buffer.
C2_Witness ==
    /\ call.op = "planes_mut"
    /\ ret.status = "ok"
    /\ Len(ret.views) = 2
    /\ 0 < n_frames /\ n_frames < n_capacity

\* C3: chan_pair_mut(i, j) with i = j is rejected in every buffer state, and
\* the two views of an accepted call are disjoint ranges of the allocation.
C3_PairRejectsSameChannel ==
    call.op = "chan_pair_mut" =>
        /\ call.chans[1] = call.chans[2] => ret.status = "panic"
        /\ ret.status = "ok" => Cells(ret.views[1]) \cap Cells(ret.views[2]) = {}

\* C4: when the callback of render fails at its invocation for frame m,
\* render returns the failure with n_frames = m: the frames committed before
\* it are kept and n_frames has not reached the requested end.
C4_FailureKeepsCommittedFrames ==
    (call.op \in {"render", "fill"} /\ ret.status = "err") =>
        /\ log # <<>>
        /\ ~log[Len(log)].ok
        /\ n_frames = log[Len(log)].idx
        /\ n_frames = call.p + (Len(log) - 1)
        /\ n_frames < call.p + Requested

\* A render entered with committed frames failed after committing more.
C4_Witness ==
    /\ call.op = "render"
    /\ ret.status = "err"
    /\ call.p >= 1
    /\ n_frames > call.p

\* C5: render(n, f) entered with n_frames = p invokes f with p, p + 1, ... in
\* increasing order without gap or repeat, n_frames grows by one after each
\* successful invocation and before the next, and no invocation follows a
\* failing one or index p + n - 1.
C5_CallbackOrder ==
    call.op \in {"render", "fill"} =>
        /\ \A k \in 1..Len(log) :
              /\ log[k].idx = call.p + (k - 1)
              /\ log[k].idx <= call.p + Requested - 1
              /\ k < Len(log) => log[k].ok
        /\ pc = "render" => n_frames = call.p + Len(log)
        /\ (pc = "idle" /\ ret.status = "ok") => n_frames = call.p + Len(log)
        /\ ret.status = "err" => n_frames = call.p + (Len(log) - 1)
        /\ ret.status = "panic" => log = <<>>

\* A render entered with a committed frame has invoked its callback twice.
C5_Witness ==
    /\ call.op = "render"
    /\ call.p >= 1
    /\ Len(log) >= 2
    /\ log[1].ok /\ log[2].ok

\* C6: render(n, f) entered with n_frames = p hands f, for each channel c,
\* the view [c * capacity + p, c * capacity + p + n): inside the allocation
\* and inside plane c, disjoint from the other views, and holding no frame
\* position below p.
C6_ViewsAreUnwrittenTail ==
    (call.op \in {"render", "fill"} /\ log # <<>>) =>
        /\ Len(planes) = NumChannels
        /\ \A i \in 1..NumChannels :
              /\ planes[i] = View((i - 1) * n_capacity + call.p, Requested)
              /\ InAllocation(planes[i])
              /\ \A k \in Cells(planes[i]) :
                    /\ (i - 1) * n_capacity + call.p <= k
                    /\ k < i * n_capacity
        /\ PairwiseDisjoint(planes)

\* The callback of a render entered with a committed frame has been handed
\* two views.
C6_Witness ==
    /\ call.op = "render"
    /\ pc = "render"
    /\ log # <<>>
    /\ call.p >= 1
    /\ Len(planes) = 2
    /\ planes[1].len >= 1

\* C7: clear() followed by render(Some(k), f), 0 <= k <= capacity, with an f
\* that always succeeds and writes nothing leaves n_frames = k, and chan(i)
\* and chan_mut(i) then return a view of length k for every channel i.
C7_ClearThenRender ==
    ( /\ call.op = "render"
      /\ call.afterClear
      /\ call.n # None
      /\ Requested <= n_capacity
      /\ pc = "idle"
      /\ ret.status # "err"
      /\ ~call.wrote ) =>
        /\ ret.status = "ok"
        /\ n_frames = Requested
        /\ \A i \in 0..(NumChannels - 1) :
              LET r == chan(n_frames, n_capacity, Len(buf), i, overflow_checks)
                  m == chan_mut(n_frames, n_capacity, Len(buf), i, overflow_checks)
              IN  /\ r.status = "ok" /\ r.views[1].len = Requested
                  /\ m.status = "ok" /\ m.views[1].len = Requested

\* Such a render of two frames into a two-channel buffer has returned.
C7_Witness ==
    /\ call.op = "render"
    /\ call.afterClear
    /\ call.n = Some(2)
    /\ pc = "idle"
    /\ ret.status = "ok"
    /\ ~call.wrote
    /\ NumChannels = 2
    /\ n_frames = 2

\* C8: render_reserved(Some(n)) with n_frames + n <= capacity advances
\* n_frames by exactly n and render_reserved(None) sets it to the capacity;
\* neither changes a sample of the allocation, the capacity or the spec.
C8_RenderReservedEffect ==
    [][call'.op = "render_reserved" =>
          /\ buf' = buf
          /\ n_capacity' = n_capacity
          /\ spec' = spec
          /\ (call'.n # None /\ n_frames + call'.n[1] <= n_capacity) =>
                (ret'.status = "ok" /\ n_frames' = n_frames + call'.n[1])
          /\ call'.n = None => (ret'.status = "ok" /\ n_frames' = n_capacity)]_vars

\* render_reserved(Some(2)) has advanced a buffer holding one committed frame
\* and a non-default sample.
C8_Witness ==
    /\ call.op = "render_reserved"
    /\ call.n = Some(2)
    /\ call.p = 1
    /\ ret.status = "ok"
    /\ n_frames = 3
    /\ \E k \in DOMAIN buf : buf[k] # 0

\* C9: render_reserved(Some(n)) and render(Some(n), f) called with
\* n_frames + n > capacity abort, leave n_frames unchanged, and render does
\* not invoke f.
C9_RenderPastCapacityAborts ==
    ( /\ call.op \in {"render_reserved", "render"}
      /\ call.n # None
      /\ call.p + call.n[1] > n_capacity ) =>
        /\ ret.status = "panic"
        /\ n_frames = call.p
        /\ log = <<>>

\* C10: fill(f) is clear() then render(None, f) whatever n_frames was: with
\* an f that always succeeds it invokes f capacity times, with 0, 1, ...,
\* capacity - 1, and ends with n_frames = capacity; with f failing at index m
\* it returns the failure with n_frames = m.
C10_FillClearsThenRenders ==
    call.op = "fill" =>
        /\ ret.status # "panic"
        /\ \A k \in 1..Len(log) : log[k].idx = k - 1 /\ (k < Len(log) => log[k].ok)
        /\ (pc = "idle" /\ ret.status = "ok") =>
              /\ Len(log) = n_capacity
              /\ \A k \in 1..Len(log) : log[k].ok
              /\ n_frames = n_capacity
        /\ ret.status = "err" =>
              /\ log # <<>>
              /\ ~log[Len(log)].ok
              /\ n_frames = log[Len(log)].idx

\* A fill of a buffer that held committed frames has run to the end.
C10_Witness ==
    /\ call.op = "fill"
    /\ call.prior >= 1
    /\ pc = "idle"
    /\ ret.status = "ok"
    /\ Len(log) >= 2

\* C11: clear() sets n_frames to 0 and changes nothing else: every sample of
\* the storage, those that were valid included, the capacity and the spec are
\* the same after the call as before it.
C11_ClearOnlyResetsFrames ==
    [][call'.op = "clear" =>
          /\ n_frames' = 0
          /\ buf' = buf
          /\ n_capacity' = n_capacity
          /\ spec' = spec
          /\ ret'.status = "ok"]_vars

\* A buffer that holds written samples in two planes has been cleared.
C11_Witness ==
    /\ call.op = "clear"
    /\ n_frames = 0
    /\ NumChannels >= 2
    /\ \E k \in DOMAIN buf : buf[k] # 0 /\ k > n_capacity

\* C12: transform(f) returns for every buffer, capacity 0 and zero channels
\* included; it replaces the sample at each frame position below n_frames of
\* every plane by f of its old value, once, and leaves the samples at
\* positions from n_frames on, n_frames, the capacity and the spec as they
\* were; the offsets it dereferences are exactly the positions [0, n_frames)
\* of the planes of the buffer.
C12_TransformValidFramesOnce ==
    [][call'.op = "transform" =>
          /\ ret'.status = "ok"
          /\ buf' = [k \in DOMAIN buf |->
                        IF (k - 1) % n_capacity < n_frames
                        THEN Apply(call'.f, buf[k]) ELSE buf[k]]
          /\ transform_cells(0, Len(buf), n_frames, n_capacity)
                = {c * n_capacity + i : c \in 0..(NumChannels - 1),
                                        i \in 0..(n_frames - 1)}
          /\ n_frames' = n_frames
          /\ n_capacity' = n_capacity
          /\ spec' = spec]_vars

\* A transform has run on two planes that hold valid frames followed by a
\* written sample beyond them.
C12_Witness ==
    /\ call.op = "transform"
    /\ call.f = "inc"
    /\ NumChannels >= 2
    /\ 0 < n_frames
    /\ n_frames < n_capacity
    /\ buf[1] = 1
    /\ \E k \in DOMAIN buf : (k - 1) % n_capacity >= n_frames /\ buf[k] # 0

\* C13: chan(i) and chan_mut(i) with i >= the channel count abort in every
\* state of the buffer, n_frames = 0 and capacity 0 included: they return no
\* view for an index that is out of range.
C13_ChanRejectsOutOfRange ==
    (call.op \in {"chan", "chan_mut"} /\ call.chans[1] >= NumChannels) =>
        ret.status = "panic"

\* C14: on a buffer of capacity 0 every accessor (chan, chan_mut,
\* chan_pair_mut, planes, planes_mut), called with channels of the buffer,
\* returns empty views without aborting, and clear, render(None, f),
\* render_reserved(None) and transform return normally and leave n_frames = 0.
C14_UnusedBufferDegenerates ==
    n_capacity = 0 =>
        /\ ( /\ call.op \in {"chan", "chan_mut", "chan_pair_mut",
                             "planes", "planes_mut"}
             /\ \A k \in DOMAIN call.chans : call.chans[k] < NumChannels
             /\ \A j, k \in DOMAIN call.chans :
                    j # k => call.chans[j] # call.chans[k] ) =>
              /\ ret.status = "ok"
              /\ \A k \in DOMAIN ret.views : ret.views[k].len = 0
        /\ ( \/ call.op \in {"clear", "transform"}
             \/ call.op \in {"render", "render_reserved"} /\ call.n = None ) =>
              /\ ret.status = "ok"
              /\ n_frames = 0
              /\ buf = <<>>

\* The destination has the frame count, the capacity and the spec of the
\* source.
Equivalent ==
    /\ dest.n_frames = n_frames
    /\ dest.n_capacity = n_capacity
    /\ dest.spec = spec

\* C16: convert(src, dest) with a dest that differs from src in frame count,
\* capacity or spec is a precondition failure: the call aborts and writes no
\* sample of dest.
C16_ConvertRejectsMismatch ==
    [][(call'.op = "convert" /\ ~Equivalent) =>
          /\ ret'.status = "panic"
          /\ dest' = dest]_vars

\* C17: after convert on equivalent buffers the sample of dest at index
\* c * capacity + f is the conversion of the sample of src at that index, for
\* every channel c and every f below n_frames; the samples of dest at
\* positions from n_frames on and the frame count, capacity and spec of dest
\* are as before the call.
C17_ConvertValidFrames ==
    [][(call'.op = "convert" /\ Equivalent) =>
          /\ ret'.status = "ok"
          /\ dest'.buf = [k \in DOMAIN dest.buf |->
                            IF (k - 1) % n_capacity < n_frames
                            THEN into_sample("f32", buf[k]) ELSE dest.buf[k]]
          /\ dest'.n_frames = dest.n_frames
          /\ dest'.n_capacity = dest.n_capacity
          /\ dest'.spec = dest.spec]_vars

\* A convert between equivalent buffers of two channels has written a
\* non-zero sample of the second plane and has left an older converted sample
\* beyond the valid frames.
C17_Witness ==
    /\ call.op = "convert"
    /\ ret.status = "ok"
    /\ Equivalent
    /\ NumChannels >= 2
    /\ 0 < n_frames
    /\ n_frames < n_capacity
    /\ buf[n_capacity + 1] = 1
    /\ dest.buf[n_capacity + 1] = into_sample("f32", 1)
    /\ \E k \in DOMAIN dest.buf :
          (k - 1) % n_capacity >= n_frames /\ dest.buf[k] # DefaultF32

\* C18: make_equivalent returns a new buffer with the capacity and the spec
\* of the source, n_frames = 0 and capacity * channel count samples, all at
\* their default, whatever the frame count and the samples of the source; the
\* source is unchanged.
C18_MakeEquivalentFresh ==
    [][call'.op = "make_equivalent" =>
          /\ dest'.n_capacity = n_capacity
          /\ dest'.spec = spec
          /\ dest'.n_frames = 0
          /\ Len(dest'.buf) = n_capacity * NumChannels
          /\ \A k \in DOMAIN dest'.buf : dest'.buf[k] = DefaultF32
          /\ UNCHANGED <<buf, spec, n_frames, n_capacity>>]_vars

\* make_equivalent has been called on a source that holds valid frames with
\* non-zero samples, fewer than its capacity.
C18_Witness ==
    /\ call.op = "make_equivalent"
    /\ NumChannels >= 2
    /\ 0 < n_frames
    /\ n_frames < n_capacity
    /\ buf[1] = 1
    /\ dest.n_capacity = n_capacity

\* C15: AudioBuffer::new and SampleBuffer::new compute the capacity in
\* frames as n for Duration::Frames(n) and as seconds * rate, truncated
\* toward zero, for Duration::Seconds(seconds), for every rate and duration;
\* the SampleBuffer is allocated for that many frames of every channel.
C15_CapacityFromDuration ==
    call.duration # None =>
        LET d == call.duration[1]
            expected == IF d.kind = "Frames" THEN d.v ELSE d.v * spec.rate
        IN  /\ call.op = "new" => n_capacity = expected
            /\ call.op = "sample_new" =>
                  Len(sbuf.buf) = expected * NumChannels

\* C19: every copy operation (copy_planar, copy_planar_typed,
\* copy_planar_ref, copy_interleaved, copy_interleaved_typed,
\* copy_interleaved_ref) called on a SampleBuffer whose capacity() is below
\* frames * channels of the source aborts and leaves samples() and the bytes
\* of the SampleBuffer as they were.
C19_CopyRejectsSmallBuffer ==
    [][(call'.op \in CopyOps /\ capacity(sbuf) < n_frames * NumChannels) =>
          /\ ret'.status = "panic"
          /\ samples(sbuf') = samples(sbuf)
          /\ as_bytes(sbuf') = as_bytes(sbuf)
          /\ sbuf' = sbuf]_vars

\* A copy into a SampleBuffer that holds the samples of an earlier, smaller
\* copy has been refused.
C19_Witness ==
    /\ call.op \in CopyOps
    /\ ret.status = "panic"
    /\ capacity(sbuf) < n_frames * NumChannels
    /\ samples(sbuf) > 0
    /\ as_bytes(sbuf)[1] = Some(Ramp(0))

\* C20: for every sample kind, the 24-bit kinds with their packed 3-byte
\* export included, capacity() of a SampleBuffer is the number of frames it
\* was constructed for times the channel count, before and after any
\* sequence of copy operations.
C20_CapacityInSamples ==
    sbuf.kind # "none" =>
        capacity(sbuf) = built.sample_frames * ChannelsLen(built.spec.channels)

\* The element a copy exports for the source sample s: its conversion to the
\* kind of the SampleBuffer (typed copies) or s itself (untyped copies), in
\* the stream representation of that kind.
Exported(kind, typed, s) ==
    Some(WriteSample(kind, IF typed THEN into_sample(kind, s) ELSE s))

\* The copy that has just returned normally is a typed one.
TypedOp(op) ==
    op \in {"copy_planar_typed", "copy_planar_ref",
            "copy_interleaved_typed", "copy_interleaved_ref"}

\* C21: after copy_planar or copy_planar_typed of a source with N channels,
\* capacity C and F valid frames, samples() = F * N and the exported element
\* at position c * F + f is (the conversion of) the source sample at
\* allocation index c * C + f, for all c < N and f < F: the result is a
\* function of the valid samples alone, not of C nor of the samples at frame
\* positions from F on.
C21_PlanarLayout ==
    [][(call'.op \in {"copy_planar", "copy_planar_typed"}
            /\ ret'.status = "ok") =>
          /\ samples(sbuf') = n_frames * NumChannels
          /\ Len(as_bytes(sbuf')) = n_frames * NumChannels
          /\ \A c \in 0..(NumChannels - 1), f \in 0..(n_frames - 1) :
                as_bytes(sbuf')[c * n_frames + f + 1]
                   = Exported(sbuf.kind, TypedOp(call'.op),
                              buf[c * n_capacity + f + 1])]_vars

\* A typed planar copy, converting to 24 bits, of two or more planes that
\* hold fewer valid frames than their capacity, with a stored sample beyond
\* the valid frames, has returned normally.
C21_Witness ==
    /\ call.op = "copy_planar_typed"
    /\ ret.status = "ok"
    /\ sbuf.kind = "i24"
    /\ NumChannels >= 2
    /\ 0 < n_frames
    /\ n_frames < n_capacity
    /\ buf[n_frames + 1] # 0
    /\ as_bytes(sbuf)[n_frames + 1] = Some(n_capacity + 1)

\* C22: after copy_interleaved or copy_interleaved_typed of a source with N
\* channels, capacity C and F valid frames, samples() = F * N and the
\* exported element at position f * N + c is (the conversion of) the source
\* sample at allocation index c * C + f, for all f < F and c < N, for N = 0,
\* 1, 2 and 3 or more.
C22_InterleavedLayout ==
    [][(call'.op \in {"copy_interleaved", "copy_interleaved_typed"}
            /\ ret'.status = "ok") =>
          /\ samples(sbuf') = n_frames * NumChannels
          /\ Len(as_bytes(sbuf')) = n_frames * NumChannels
          /\ \A f \in 0..(n_frames - 1), c \in 0..(NumChannels - 1) :
                as_bytes(sbuf')[f * NumChannels + c + 1]
                   = Exported(sbuf.kind, TypedOp(call'.op),
                              buf[c * n_capacity + f + 1])]_vars

\* An interleaving copy of three or more planes that hold fewer valid frames
\* than their capacity has returned normally: the second exported element is
\* the first sample of the second plane.
C22_Witness ==
    /\ call.op \in {"copy_interleaved", "copy_interleaved_typed"}
    /\ ret.status = "ok"
    /\ NumChannels >= 3
    /\ 0 < n_frames
    /\ n_frames < n_capacity
    /\ as_bytes(sbuf)[2]
          = Exported(sbuf.kind, TypedOp(call.op), Ramp(n_capacity))

\* What the loop of the arm for 3 and more channels exports when it is run
\* on the source, whatever its channel count.
GeneralPath(sb, src, typed) ==
    CopyResult(general_loop(
        from_buf(src.n_frames * ChannelsLen(src.spec.channels), sb),
        src, 0, typed)).sb

\* C23: for every source of 1 or 2 channels the mono and stereo arms of
\* copy_interleaved and copy_interleaved_typed export exactly what the
\* general loop exports for the same source: the same samples() and the same
\* elements in as_bytes().
C23_SpecializedEqualsGeneral ==
    [][(call'.op \in {"copy_interleaved", "copy_interleaved_typed"}
            /\ NumChannels \in {1, 2} /\ ret'.status = "ok") =>
          LET g == GeneralPath(sbuf, Src, TypedOp(call'.op))
          IN  /\ samples(sbuf') = samples(g)
              /\ as_bytes(sbuf') = as_bytes(g)]_vars

\* An interleaving copy of a stereo source of two or more valid frames has
\* returned normally.
C23_Witness ==
    /\ call.op \in {"copy_interleaved", "copy_interleaved_typed"}
    /\ ret.status = "ok"
    /\ NumChannels = 2
    /\ n_frames >= 2
    /\ samples(sbuf) = 2 * n_frames
    /\ as_bytes(sbuf)[3] = Exported(sbuf.kind, TypedOp(call.op), Ramp(1))

\* C24: during any copy operation the k-th write of the SampleWriter
\* (k = 0, 1, 2, ...) lands at element offset k, so the offsets are unique
\* and strictly increasing, and every offset is below the capacity() and the
\* allocated elements of the SampleBuffer; when the copy returns, the number
\* of elements written is samples(), and as_bytes() holds exactly samples()
\* elements, each written by that copy.
C24_WriterOffsets ==
    call.op \in CopyOps =>
        /\ \A k \in DOMAIN log :
              /\ log[k] = k - 1
              /\ log[k] < capacity(sbuf)
              /\ log[k] < Len(sbuf.buf)
        /\ ret.status = "ok" =>
              /\ Len(log) = samples(sbuf)
              /\ Len(as_bytes(sbuf)) = samples(sbuf)
              /\ \A k \in DOMAIN as_bytes(sbuf) :
                    /\ as_bytes(sbuf)[k] # None
                    /\ \E j \in DOMAIN log : log[j] = k - 1

\* A copy that wrote four or more elements has returned normally.
C24_Witness ==
    /\ call.op \in CopyOps
    /\ ret.status = "ok"
    /\ Len(log) >= 4
    /\ log[4] = 3
    /\ samples(sbuf) = Len(log)

\* The destination holds the conversion of every valid sample of the source.
HoldsConversion ==
    \A c \in 0..(NumChannels - 1), f \in 0..(n_frames - 1) :
        LET k == c * n_capacity + f + 1
        IN  /\ k \in DOMAIN dest.buf
            /\ dest.buf[k] = into_sample("f32", buf[k])

\* The copy operation named op, applied to the SampleBuffer sb and source src.
CopyOp(op, sb, src) ==
    CASE op = "copy_planar" -> copy_planar(sb, src)
      [] op = "copy_planar_typed" -> copy_planar_typed(sb, src)
      [] op = "copy_planar_ref" -> copy_planar_ref(sb, src)
      [] op = "copy_interleaved" -> copy_interleaved(sb, src)
      [] op = "copy_interleaved_typed" -> copy_interleaved_typed(sb, src)
      [] op = "copy_interleaved_ref" -> copy_interleaved_ref(sb, src)

\* The SampleBuffer sb as SampleBuffer::new leaves it: nothing written.
Unwritten(sb) ==
    [sb EXCEPT !.buf = [k \in DOMAIN sb.buf |-> None], !.n_written = 0]

\* C26: every copy replaces the content of the SampleBuffer: after a copy
\* that returns normally, whatever was copied before, samples() is frames *
\* channels of this source, and as_bytes() is, from offset 0 on, exactly what
\* the same copy exports into a SampleBuffer nothing was ever written to.
C26_CopyReplaces ==
    [][(call'.op \in CopyOps /\ ret'.status = "ok") =>
          /\ samples(sbuf') = n_frames * NumChannels
          /\ as_bytes(sbuf') = as_bytes(CopyOp(call'.op, Unwritten(sbuf), Src).sb)
          /\ \A k \in DOMAIN as_bytes(sbuf') : as_bytes(sbuf')[k] # None]_vars

\* A copy of a single frame has returned into a SampleBuffer that still
\* holds, beyond the exported elements, elements of an earlier, longer copy.
C26_Witness ==
    /\ call.op \in CopyOps
    /\ ret.status = "ok"
    /\ NumChannels >= 2
    /\ n_frames = 1
    /\ samples(sbuf) = NumChannels
    /\ \E k \in DOMAIN sbuf.buf : k > sbuf.n_written /\ sbuf.buf[k] # None

\* C27: in render(n, f) every frame index passed to f is a valid position of
\* each plane view handed to f, index < view length, whatever the frame count
\* the render started at.
C27_FrameIndexInView ==
    call.op \in {"render", "fill"} =>
        \A k \in DOMAIN log, c \in DOMAIN planes :
            log[k].idx < planes[c].len

\* C28: the copy operations of SampleBuffer and convert do not modify their
\* source: its frame count, capacity, spec and every sample of its allocation
\* are after the call what they were before, so the same export or the same
\* conversion, made twice in a row, gives the same result twice.
C28_SourceUnmodified ==
    [][(call'.op \in CopyOps \cup {"convert"}) =>
          /\ UNCHANGED <<buf, spec, n_frames, n_capacity>>
          /\ (call.op = call'.op /\ call.op \in CopyOps) => sbuf' = sbuf
          /\ (call.op = call'.op /\ call.op = "convert") => dest' = dest]_vars

\* An export has returned from a source of two or more planes, with stored
\* samples, that has also been converted into its equivalent buffer.
C28_Witness ==
    /\ call.op \in CopyOps
    /\ ret.status = "ok"
    /\ NumChannels >= 2
    /\ n_frames > 0
    /\ samples(sbuf) = n_frames * NumChannels
    /\ Equivalent
    /\ HoldsConversion
    /\ buf[n_capacity + 1] # 0
    /\ dest.buf[n_capacity + 1] # DefaultF32

\* C29: in decode_only and play, whenever the packet loop ends with an
\* error, from decoder.decode or from reader.next_packet, decoder.close() has
\* been called exactly once when the error is returned.
C29_CloseOnError ==
    (player.pos = "returned" /\ player.ret \in {"err_next_packet", "err_decode"})
        => player.closed = 1

\* C30: reading an ilst atom does not abort on malformed tag content, bytes
\* that are not UTF-8 and atoms whose declared length is shorter than their
\* fixed fields included: IlstAtom::read returns Ok or an error.
C30_IlstNeverAborts ==
    ilst.pos = "returned" => ilst.ret \in {"ok", "err"}

====
